---------------------------- MODULE Spec2Model ----------------------------
(***************************************************************************)
(* Byte-AI: the tolerant JSON extraction helper (parseModelJSON), the      *)
(* request/response call sites that consume it, and the duplex voice       *)
(* session (LiveClient) of the Gemini service module.                      *)
(*                                                                         *)
(* A text is a sequence of characters (one-character strings, and Tick for *)
(* the grave accent).  A JSON value is a pair                              *)
(* <<tag, payload>> whose payload is always a sequence:                    *)
(*   <<"null", <<>>>>  <<"true", <<>>>>  <<"false", <<>>>>                 *)
(*   <<"num", <<n>>>>  <<"str", chars>>  <<"arr", values>>                 *)
(*   <<"obj", members>>   members: a sequence of <<key chars, value>>      *)
(***************************************************************************)
EXTENDS Integers, Sequences, FiniteSets, TLC

VARIABLES
  \* parser specification: the input text, the value it encodes (RawOrigin
  \* for a raw text), how it is wrapped, the call's position and its result
  text, origin, wrap, ppc, result,
  \* call-site specification: the exported function called, the Gateway's
  \* answer (request outcome and response text), the call's position and
  \* what the caller receives
  site, reqOutcome, respText, cpc, outcome,
  \* voice session specification: the fields of one LiveClient
  sessionPromise, inputAudioContext, outputAudioContext, stream,
  \* the browser's and the Gateway's objects behind them: the state of each
  \* stream-open promise (and of its session), audio context and capture track
  promise, ctxState, trackState,
  \* the calls in progress: connect() and disconnect() frames, the
  \* continuations waiting for a pending promise, the microtask queue (and
  \* whether it is being drained), and the promise rejections nobody handles
  conn, disc, waiters, micro, draining, unhandled,
  \* the transport events delivered to the session's callbacks and the calls
  \* made to the caller's callback (onTranscription)
  errorsSeen, callbacks,
  \* capture: the frames the capture callback was fired with, and the frames
  \* transmitted, in order
  frames, sent,
  \* sample encoding: one input sample of createBlob (in units of
  \* 1/SampleScale) and the 16-bit value stored for it
  sample, blob,
  \* playback: the clock of the audio contexts, the inbound messages handled,
  \* the playback cursor field and the active playback set field
  clock, chunks, nextStartTime, sources,
  \* the Assistant component: its state (isLiveConnected, liveClient), the
  \* LiveClient objects it created and the toggleLive calls made
  isLiveConnected, liveClient, clients, taps,
  \* the App's shopping list, and of RecipeDetails the ingredient list of
  \* the recipe shown and the ingredients ticked as prepared
  shoppingList, ingredients, checkedState,
  \* RecipeGenerator: the number of ingredients it was given (pantry), the
  \* generated recipes, its two loading flags, and the fetchRecipes calls
  pantry, recipes, loading, loadingMore, fetches,
  \* CookingMode: the number of steps of its recipe, its state, and the
  \* playStep calls
  steps, currentStep, isPlaying, plays

parserVars == <<text, origin, wrap, ppc, result>>
callVars == <<site, reqOutcome, respText, cpc, outcome>>

liveVars == <<sessionPromise, inputAudioContext, outputAudioContext, stream,
              promise, ctxState, trackState, conn, disc, waiters, micro,
              draining, unhandled>>
eventVars == <<errorsSeen, callbacks>>
blobVars == <<sample, blob>>
captureVars == <<frames, sent, blobVars>>
playVars == <<clock, chunks, nextStartTime, sources>>
sessionVars == <<liveVars, eventVars, captureVars, playVars>>

toggleVars == <<isLiveConnected, liveClient, clients, taps>>
listVars == <<shoppingList, ingredients, checkedState>>
fetchVars == <<pantry, recipes, loading, loadingMore, fetches>>
cookVars == <<steps, currentStep, isPlaying, plays>>
appVars == <<toggleVars, listVars, fetchVars, cookVars>>

vars == <<parserVars, callVars, sessionVars, appVars>>

(***************************************************************************)
(* Bounds of the input sets.                                               *)
(***************************************************************************)
MaxStrLen == 3
MaxRawLen == 4
MaxCut == 9
MaxConnects == 2
MaxDisconnects == 2
MaxErrors == 2
MaxFrames == 3
MaxChunks == 2
MaxClock == 2
MaxDuration == 2
EdgeWidth == 16
MaxBurst == 3
MaxBurstClock == 4
MaxTaps == 3
MaxIngredients == 3
MaxListLen == 4
MaxPantry == 1
MaxFetches == 4
MaxRes == 1
MaxSteps == 4
MaxCurrentStep == 6
MaxPlays == 2

(***************************************************************************)
(* Generic sequence helpers (1-based; index 0 stands for JavaScript's -1). *)
(***************************************************************************)
SeqsUpTo(S, n) == UNION {[1..k -> S] : k \in 0..n}

\* String.prototype.indexOf(c): the first position of c, 0 when absent.
IndexOf(s, c) ==
  IF \E i \in 1..Len(s) : s[i] = c
  THEN CHOOSE i \in 1..Len(s) : s[i] = c /\ \A j \in 1..(i-1) : s[j] # c
  ELSE 0

\* String.prototype.lastIndexOf(c): the last position of c, 0 when absent.
LastIndexOf(s, c) ==
  IF \E i \in 1..Len(s) : s[i] = c
  THEN CHOOSE i \in 1..Len(s) : s[i] = c /\ \A j \in (i+1)..Len(s) : s[j] # c
  ELSE 0

MatchAt(s, i, pat) ==
  /\ i + Len(pat) - 1 <= Len(s)
  /\ SubSeq(s, i, i + Len(pat) - 1) = pat

\* String.prototype.replace(/pat/g, ''): every non-overlapping occurrence of
\* pat, found left to right, is removed.
RECURSIVE RemoveAll(_, _)
RemoveAll(s, pat) ==
  IF ~(\E i \in 1..Len(s) : MatchAt(s, i, pat)) THEN s
  ELSE LET i == CHOOSE i \in 1..Len(s) :
                  MatchAt(s, i, pat) /\ \A j \in 1..(i-1) : ~MatchAt(s, j, pat)
       IN SubSeq(s, 1, i - 1) \o RemoveAll(SubSeq(s, i + Len(pat), Len(s)), pat)

WhiteSpace == {" ", "\n", "\t", "\r"}

\* String.prototype.trim(): white space is dropped at both ends.
Trim(s) ==
  IF \A i \in 1..Len(s) : s[i] \in WhiteSpace THEN <<>>
  ELSE LET a == CHOOSE i \in 1..Len(s) :
                  s[i] \notin WhiteSpace /\ \A j \in 1..(i-1) : s[j] \in WhiteSpace
           b == CHOOSE i \in 1..Len(s) :
                  s[i] \notin WhiteSpace /\ \A j \in (i+1)..Len(s) : s[j] \in WhiteSpace
       IN SubSeq(s, a, b)

(***************************************************************************)
(* JSON values.                                                            *)
(***************************************************************************)
JNull == <<"null", <<>>>>
JTrue == <<"true", <<>>>>
JFalse == <<"false", <<>>>>
JNum(n) == <<"num", <<n>>>>
JStr(cs) == <<"str", cs>>
JArr(vs) == <<"arr", vs>>
JObj(ms) == <<"obj", ms>>

Tag(v) == v[1]
Payload(v) == v[2]
IsObj(v) == Tag(v) = "obj"
IsArr(v) == Tag(v) = "arr"

Quote == "\""
Digits == <<"0", "1", "2", "3", "4", "5", "6", "7", "8", "9">>
DigitSet == {Digits[i] : i \in 1..10}
DigitVal(c) == (CHOOSE i \in 1..10 : Digits[i] = c) - 1

(***************************************************************************)
(* JSON.stringify on the values above.  The string alphabet of the model   *)
(* holds no quote, backslash or control character, so no escape is needed. *)
(***************************************************************************)
RECURSIVE EncodeNat(_)
EncodeNat(n) == IF n < 10 THEN <<Digits[n + 1]>>
                ELSE EncodeNat(n \div 10) \o <<Digits[(n % 10) + 1]>>

EncodeStr(cs) == <<Quote>> \o cs \o <<Quote>>

RECURSIVE jsonEncode(_), EncodeItems(_, _), EncodeMembers(_, _)
jsonEncode(v) ==
  CASE Tag(v) = "null" -> <<"n", "u", "l", "l">>
    [] Tag(v) = "true" -> <<"t", "r", "u", "e">>
    [] Tag(v) = "false" -> <<"f", "a", "l", "s", "e">>
    [] Tag(v) = "num" -> EncodeNat(Payload(v)[1])
    [] Tag(v) = "str" -> EncodeStr(Payload(v))
    [] Tag(v) = "arr" -> <<"[">> \o EncodeItems(Payload(v), 1) \o <<"]">>
    [] Tag(v) = "obj" -> <<"{">> \o EncodeMembers(Payload(v), 1) \o <<"}">>

EncodeItems(vs, i) ==
  IF i > Len(vs) THEN <<>>
  ELSE (IF i > 1 THEN <<",">> ELSE <<>>) \o jsonEncode(vs[i])
         \o EncodeItems(vs, i + 1)

EncodeMembers(ms, i) ==
  IF i > Len(ms) THEN <<>>
  ELSE (IF i > 1 THEN <<",">> ELSE <<>>) \o EncodeStr(ms[i][1]) \o <<":">>
         \o jsonEncode(ms[i][2]) \o EncodeMembers(ms, i + 1)

(***************************************************************************)
(* JSON.parse: a recursive-descent recogniser of the JSON grammar          *)
(* (objects, arrays, strings without escapes, unsigned integers, the three *)
(* literals, insignificant white space).  A parse step returns             *)
(* <<ok, value, next position>>; JSONparse throws (ok = FALSE) unless the  *)
(* whole text is one value.                                                *)
(***************************************************************************)
PFail == <<FALSE, JNull, 0>>

RECURSIVE SkipWS(_, _)
SkipWS(s, i) == IF i <= Len(s) /\ s[i] \in WhiteSpace THEN SkipWS(s, i + 1) ELSE i

\* A string literal starting at s[i] = Quote: up to the next quote; a raw
\* control character or a backslash (escapes are outside the alphabet) fails.
ParseString(s, i) ==
  IF ~(\E j \in (i+1)..Len(s) : s[j] = Quote) THEN PFail
  ELSE LET j == CHOOSE j \in (i+1)..Len(s) :
                  s[j] = Quote /\ \A k \in (i+1)..(j-1) : s[k] # Quote
           body == SubSeq(s, i + 1, j - 1)
       IN IF \E k \in 1..Len(body) : body[k] \in {"\n", "\t", "\r", "\\"}
          THEN PFail
          ELSE <<TRUE, body, j + 1>>

RECURSIVE DigitsEnd(_, _)
DigitsEnd(s, i) == IF i <= Len(s) /\ s[i] \in DigitSet THEN DigitsEnd(s, i + 1) ELSE i

RECURSIVE NatOf(_, _, _)
NatOf(s, i, j) == IF j < i THEN 0 ELSE NatOf(s, i, j - 1) * 10 + DigitVal(s[j])

\* A number starting at the digit s[i]; a leading zero ends the number.
ParseNumber(s, i) ==
  LET j == IF s[i] = "0" THEN i + 1 ELSE DigitsEnd(s, i)
  IN <<TRUE, JNum(NatOf(s, i, j - 1)), j>>

\* Object members keep insertion order; a repeated key keeps its first place
\* and takes the last value.
PutMember(ms, k, v) ==
  IF \E i \in 1..Len(ms) : ms[i][1] = k
  THEN [i \in 1..Len(ms) |-> IF ms[i][1] = k THEN <<k, v>> ELSE ms[i]]
  ELSE Append(ms, <<k, v>>)

RECURSIVE ParseValue(_, _), ParseMembers(_, _, _), ParseElements(_, _, _)
ParseValue(s, i) ==
  IF i > Len(s) THEN PFail
  ELSE CASE s[i] = "{" ->
              LET j == SkipWS(s, i + 1)
              IN IF j <= Len(s) /\ s[j] = "}" THEN <<TRUE, JObj(<<>>), j + 1>>
                 ELSE ParseMembers(s, j, <<>>)
         [] s[i] = "[" ->
              LET j == SkipWS(s, i + 1)
              IN IF j <= Len(s) /\ s[j] = "]" THEN <<TRUE, JArr(<<>>), j + 1>>
                 ELSE ParseElements(s, j, <<>>)
         [] s[i] = Quote ->
              LET r == ParseString(s, i)
              IN IF r[1] THEN <<TRUE, JStr(r[2]), r[3]>> ELSE PFail
         [] s[i] \in DigitSet -> ParseNumber(s, i)
         [] s[i] = "n" ->
              IF MatchAt(s, i, <<"n", "u", "l", "l">>) THEN <<TRUE, JNull, i + 4>> ELSE PFail
         [] s[i] = "t" ->
              IF MatchAt(s, i, <<"t", "r", "u", "e">>) THEN <<TRUE, JTrue, i + 4>> ELSE PFail
         [] s[i] = "f" ->
              IF MatchAt(s, i, <<"f", "a", "l", "s", "e">>) THEN <<TRUE, JFalse, i + 5>> ELSE PFail
         [] OTHER -> PFail

ParseMembers(s, i, acc) ==
  IF i > Len(s) \/ s[i] # Quote THEN PFail
  ELSE LET k == ParseString(s, i)
       IN IF ~k[1] THEN PFail
          ELSE LET c == SkipWS(s, k[3])
               IN IF c > Len(s) \/ s[c] # ":" THEN PFail
                  ELSE LET v == ParseValue(s, SkipWS(s, c + 1))
                       IN IF ~v[1] THEN PFail
                          ELSE LET m == SkipWS(s, v[3])
                                   ms == PutMember(acc, k[2], v[2])
                               IN IF m > Len(s) THEN PFail
                                  ELSE IF s[m] = "}" THEN <<TRUE, JObj(ms), m + 1>>
                                  ELSE IF s[m] = "," THEN ParseMembers(s, SkipWS(s, m + 1), ms)
                                  ELSE PFail

ParseElements(s, i, acc) ==
  LET v == ParseValue(s, i)
  IN IF ~v[1] THEN PFail
     ELSE LET m == SkipWS(s, v[3])
              vs == Append(acc, v[2])
          IN IF m > Len(s) THEN PFail
             ELSE IF s[m] = "]" THEN <<TRUE, JArr(vs), m + 1>>
             ELSE IF s[m] = "," THEN ParseElements(s, SkipWS(s, m + 1), vs)
             ELSE PFail

\* JSON.parse(s): [ok |-> TRUE, val |-> v] or a SyntaxError (ok = FALSE).
JSONparse(s) ==
  LET r == ParseValue(s, SkipWS(s, 1))
  IN IF r[1] /\ SkipWS(s, r[3]) = Len(s) + 1
     THEN [ok |-> TRUE, val |-> r[2]]
     ELSE [ok |-> FALSE, val |-> JNull]

(***************************************************************************)
(* parseModelJSON.  A result records how the call ended (kind: "value" a   *)
(* decoded value is returned, "null" null is returned, "throw" an          *)
(* exception reaches the caller), the value, the number of JSON.parse      *)
(* calls made (decodes) and the return statement taken (path).             *)
(***************************************************************************)
Returned(v, n, p) == [kind |-> "value", val |-> v, decodes |-> n, path |-> p]
Empty(n, p) == [kind |-> "null", val |-> JNull, decodes |-> n, path |-> p]
Thrown(n, p) == [kind |-> "throw", val |-> JNull, decodes |-> n, path |-> p]

\* The grave accent U+0060 (no TLA+ string literal can hold it).
Tick == "tick"
FenceJson == <<Tick, Tick, Tick, "j", "s", "o", "n">>
Fence == <<Tick, Tick, Tick>>

\* Mutant of StripMarkdown: only the opening json fence is removed.
StripOpeningOnly(t) == Trim(RemoveAll(t, FenceJson))

\* 1. Strip Markdown.
StripMarkdown(t) == Trim(RemoveAll(RemoveAll(t, FenceJson), Fence))

\* Mutant of LocateStart: the last '{' instead of the first.
LocateStartLast(stripped) == LastIndexOf(stripped, "{")

\* Mutant of LocateStart: the text is decoded from its first character.
LocateStartFirstChar(stripped) == IF stripped = <<>> THEN 0 ELSE 1

\* 2. Find start of JSON object (0: none).
LocateStart(stripped) == IndexOf(stripped, "{")

\* 4. The balancing closing brace: the position where the depth counter
\* first returns to zero, 0 (end = -1) when it never does.
RECURSIVE BalanceScan(_, _, _)
BalanceScan(clean, i, balance) ==
  IF i > Len(clean) THEN 0
  ELSE IF clean[i] = "{" THEN BalanceScan(clean, i + 1, balance + 1)
  ELSE IF clean[i] = "}"
       THEN IF balance - 1 = 0 THEN i ELSE BalanceScan(clean, i + 1, balance - 1)
  ELSE BalanceScan(clean, i + 1, balance)

BalancedEnd(clean) == BalanceScan(clean, 1, 0)

\* Mutant of LastResort: the final JSON.parse is not inside a try block.
LastResortThrows(clean, n) ==
  LET lastBrace == LastIndexOf(clean, "}")
  IN IF lastBrace # 0
     THEN LET r == JSONparse(SubSeq(clean, 1, lastBrace))
          IN IF r.ok THEN Returned(r.val, n + 1, "lastBrace")
             ELSE Thrown(n + 1, "finalE")
     ELSE Empty(n, "noLastBrace")

\* Mutant of LastResort: slices at the first '}' (indexOf for lastIndexOf).
LastResortFirstBrace(clean, n) ==
  LET lastBrace == IndexOf(clean, "}")
  IN IF lastBrace # 0
     THEN LET r == JSONparse(SubSeq(clean, 1, lastBrace))
          IN IF r.ok THEN Returned(r.val, n + 1, "lastBrace")
             ELSE Empty(n + 1, "finalE")
     ELSE Empty(n, "noLastBrace")

\* Last resort: slice at the last '}' of the whole string; n decodes so far.
LastResort(clean, n) ==
  LET lastBrace == LastIndexOf(clean, "}")
  IN IF lastBrace # 0
     THEN LET r == JSONparse(SubSeq(clean, 1, lastBrace))
          IN IF r.ok THEN Returned(r.val, n + 1, "lastBrace")
             ELSE Empty(n + 1, "finalE")
     ELSE Empty(n, "noLastBrace")

\* Mutant of Recover: no last resort after the balanced prefix fails.
RecoverNoLastResort(clean, n) ==
  LET end == BalancedEnd(clean)
  IN IF end # 0
     THEN LET r == JSONparse(SubSeq(clean, 1, end))
          IN IF r.ok THEN Returned(r.val, n + 1, "balanced")
             ELSE Empty(n + 1, "finalE")
     ELSE Empty(n, "unbalanced")

\* The catch block of the fast path: brace balancing, then the last resort.
Recover(clean, n) ==
  LET end == BalancedEnd(clean)
  IN IF end # 0
     THEN LET r == JSONparse(SubSeq(clean, 1, end))
          IN IF r.ok THEN Returned(r.val, n + 1, "balanced")
             ELSE LastResort(clean, n + 1)
     ELSE Empty(n, "unbalanced")

\* 3. Try basic parsing first (fastest), else recover.
Decode(clean) ==
  LET r == JSONparse(clean)
  IN IF r.ok THEN Returned(r.val, 1, "fast") ELSE Recover(clean, 1)

\* Mutant of FromStart: the start === -1 test is missing (substring(-1) is
\* the whole string).
FromStartNoGuard(stripped) ==
  LET start == LocateStart(stripped)
  IN Decode(SubSeq(stripped, IF start = 0 THEN 1 ELSE start, Len(stripped)))

FromStart(stripped) ==
  LET start == LocateStart(stripped)
  IN IF start = 0 THEN Empty(0, "noBrace")
     ELSE Decode(SubSeq(stripped, start, Len(stripped)))

parseModelJSON(t) ==
  IF t = <<>> THEN Empty(0, "noText") ELSE FromStart(StripMarkdown(t))

(***************************************************************************)
(* Inputs of the parser specification: every short text over RawChars,     *)
(* and the encodings of a bounded family of JSON values, clean, wrapped in *)
(* a json fence, or followed by prose.                                  *)
(***************************************************************************)
RawChars == {"{", "}", "a", Tick, " "}
StrChars == {"a", "{", "}", Tick}
Strs == SeqsUpTo(StrChars, MaxStrLen)
Leaves == {JNull, JTrue, JFalse, JNum(0), JNum(87)} \cup {JStr(s) : s \in Strs}
SmallLeaves == {JNull, JTrue, JNum(87), JStr(<<>>), JStr(<<"a">>), JStr(<<"{">>),
                JStr(<<"}">>)}
Keys == {<<"a">>, <<"{">>, <<"}">>}
Objects ==
  {JObj(<<>>)}
  \cup {JObj(<< <<k, l>> >>) : k \in Keys, l \in Leaves}
  \cup {JObj(<< <<(<<"a">>), l1>>, <<(<<"b">>), l2>> >>) : l1 \in SmallLeaves, l2 \in SmallLeaves}
  \cup {JObj(<< <<(<<"a">>), JObj(<< <<(<<"b">>), l>> >>)>> >>) : l \in SmallLeaves}
  \cup {JObj(<< <<(<<"a">>), JArr(<<l, JObj(<< <<(<<"b">>), l>> >>)>>)>> >>) : l \in SmallLeaves}
Arrays ==
  {JArr(<<>>)}
  \cup {JArr(<<l>>) : l \in SmallLeaves}
  \cup {JArr(<<l1, l2>>) : l1 \in SmallLeaves, l2 \in SmallLeaves}
  \cup {JArr(<<JObj(<< <<(<<"a">>), l>> >>)>>) : l \in SmallLeaves}
  \cup {JArr(<<JObj(<< <<(<<"a">>), l>> >>), JObj(<<>>)>>) : l \in SmallLeaves}
Values == Leaves \cup Objects \cup Arrays

Prose == <<" ", "H", "o", "p", "e", " ", "t", "h", "a", "t", " ", "h", "e", "l", "p", "s", "!">>
Wraps == {"clean", "fenced", "prose"}
WrapText(v, w) ==
  CASE w = "clean" -> jsonEncode(v)
    [] w = "fenced" -> FenceJson \o <<"\n">> \o jsonEncode(v) \o <<"\n">> \o Fence
    [] w = "prose" -> jsonEncode(v) \o Prose

RawOrigin == <<"raw", <<>>>>
NoResult == [kind |-> "none", val |-> JNull, decodes |-> 0, path |-> "none"]

\* The variables of a specification that is not running keep these values.
ParserIdle ==
  /\ text = <<>> /\ origin = RawOrigin /\ wrap = "raw" /\ ppc = "idle"
  /\ result = NoResult
CallsIdle ==
  /\ site = "none" /\ reqOutcome = "ok" /\ respText = <<>> /\ cpc = "idle"
  /\ outcome = [kind |-> "none", val |-> <<"undefined", <<>>>>]

ConnIds == 1..MaxConnects
DiscIds == 1..MaxDisconnects
CtxIds == 1..(2 * MaxConnects)
\* A connect() frame: its position, what it acquired, and the audio context
\* its capture graph was built on (0: no graph).
NoConn == [pc |-> "none", made |-> {}, graph |-> 0]
\* A disconnect() frame: its position, the promise it awaits, the number of
\* connect() calls made before it ended, the connect() calls in progress
\* when it was called, the release steps it reached and what was still
\* acquired when it ended.
NoDisc == [pc |-> "none", p |-> 0, connects |-> 0, mid |-> {}, steps |-> {},
           left |-> {}]

\* The Assistant before any tap: live mode off, no client created.
TapIds == 1..MaxTaps
NoClient == [pc |-> "none", ctx |-> FALSE, track |-> FALSE, net |-> "none"]
ToggleIdle ==
  /\ isLiveConnected = FALSE
  /\ liveClient = 0
  /\ clients = [c \in TapIds |-> NoClient]
  /\ taps = <<>>

\* An empty shopping list and no recipe shown.
ListIdle == shoppingList = <<>> /\ ingredients = <<>> /\ checkedState = {}

\* A RecipeGenerator with nothing to cook from and nothing asked.
FetchIdle ==
  /\ pantry = 0 /\ recipes = <<>> /\ fetches = <<>>
  /\ loading = FALSE /\ loadingMore = FALSE

\* No CookingMode on screen.
CookIdle == steps = 0 /\ currentStep = 0 /\ isPlaying = FALSE /\ plays = <<>>

AppIdle == ToggleIdle /\ ListIdle /\ FetchIdle /\ CookIdle

\* No sample encoded.
NoBlob == [made |-> FALSE, int16 |-> 0]
BlobIdle == sample = 0 /\ blob = NoBlob

\* A LiveClient as its constructor leaves it: every field null, nothing
\* acquired, no call made.
SessionIdle ==
  /\ sessionPromise = 0 /\ inputAudioContext = 0 /\ outputAudioContext = 0
  /\ stream = 0
  /\ promise = [p \in ConnIds |-> "none"]
  /\ ctxState = [c \in CtxIds |-> "none"]
  /\ trackState = [t \in ConnIds |-> "none"]
  /\ conn = [f \in ConnIds |-> NoConn]
  /\ disc = [d \in DiscIds |-> NoDisc]
  /\ waiters = [p \in ConnIds |-> <<>>]
  /\ micro = <<>>
  /\ draining = FALSE
  /\ unhandled = {}
  /\ errorsSeen = 0
  /\ callbacks = <<>>
  /\ frames = <<>>
  /\ sent = <<>>
  /\ clock = [c \in CtxIds |-> 0]
  /\ chunks = <<>>
  /\ nextStartTime = 0
  /\ sources = {}

LiveIdle == SessionIdle /\ BlobIdle /\ AppIdle

ParserInit ==
  /\ CallsIdle
  /\ LiveIdle
  /\ \/ /\ text \in SeqsUpTo(RawChars, MaxRawLen)
        /\ origin = RawOrigin
        /\ wrap = "raw"
     \/ \E v \in Values, w \in Wraps :
          /\ text = WrapText(v, w)
          /\ origin = v
          /\ wrap = w
  /\ ppc = "ready"
  /\ result = NoResult

\* The caller applies parseModelJSON to the text.
ParseCall ==
  /\ ppc = "ready"
  /\ result' = parseModelJSON(text)
  /\ ppc' = "done"
  /\ UNCHANGED <<text, origin, wrap>>
  /\ UNCHANGED <<callVars, sessionVars, appVars>>

ParserNext == ParseCall

SpecParser == ParserInit /\ [][ParserNext]_vars

(***************************************************************************)
(* The request/response call sites.  A call ends either by returning a     *)
(* value or by throwing to its caller.                                     *)
(***************************************************************************)
KCategories == <<"c", "a", "t", "e", "g", "o", "r", "i", "e", "s">>
KRecipes == <<"r", "e", "c", "i", "p", "e", "s">>
KSubstitutions == <<"s", "u", "b", "s", "t", "i", "t", "u", "t", "i", "o", "n", "s">>
KStores == <<"s", "t", "o", "r", "e", "s">>
KName == <<"n", "a", "m", "e">>
KCategory == <<"c", "a", "t", "e", "g", "o", "r", "y">>
KIsPrioritized == <<"i", "s", "P", "r", "i", "o", "r", "i", "t", "i", "z", "e", "d">>
KScore == <<"s", "c", "o", "r", "e">>
KId == <<"i", "d">>

\* The category keys the prompt asks for, lower-cased, and their labels.
CategoryKeys == <<<<"p", "r", "o", "d", "u", "c", "e">>,
                  <<"p", "r", "o", "t", "e", "i", "n">>,
                  <<"d", "a", "i", "r", "y">>,
                  <<"b", "a", "k", "e", "r", "y">>,
                  <<"p", "a", "n", "t", "r", "y">>,
                  <<"f", "r", "o", "z", "e", "n">>,
                  <<"b", "e", "v", "e", "r", "a", "g", "e", "s">>>>
CategoryLabels == <<<<"P", "r", "o", "d", "u", "c", "e">>,
                    <<"P", "r", "o", "t", "e", "i", "n">>,
                    <<"D", "a", "i", "r", "y">>,
                    <<"B", "a", "k", "e", "r", "y">>,
                    <<"P", "a", "n", "t", "r", "y">>,
                    <<"F", "r", "o", "z", "e", "n">>,
                    <<"B", "e", "v", "e", "r", "a", "g", "e", "s">>>>
LabelOther == <<"O", "t", "h", "e", "r">>

Upper == [c \in {"a", "b", "d", "f", "m", "p"} |->
            CASE c = "a" -> "A" [] c = "b" -> "B" [] c = "d" -> "D"
              [] c = "f" -> "F" [] c = "m" -> "M" [] c = "p" -> "P"]
Lower == [c \in {"A", "B", "D", "F", "M", "P"} |->
            CASE c = "A" -> "a" [] c = "B" -> "b" [] c = "D" -> "d"
              [] c = "F" -> "f" [] c = "M" -> "m" [] c = "P" -> "p"]
\* String.prototype.toLowerCase / toUpperCase on the letters of the model.
ToLowerCase(cs) == [i \in 1..Len(cs) |-> IF cs[i] \in DOMAIN Lower THEN Lower[cs[i]] ELSE cs[i]]
ToUpperCase(cs) == [i \in 1..Len(cs) |-> IF cs[i] \in DOMAIN Upper THEN Upper[cs[i]] ELSE cs[i]]

Undefined == <<"undefined", <<>>>>

\* JavaScript truthiness.
Truthy(v) ==
  CASE Tag(v) \in {"null", "false", "undefined"} -> FALSE
    [] Tag(v) = "num" -> Payload(v)[1] # 0
    [] Tag(v) = "str" -> Payload(v) # <<>>
    [] OTHER -> TRUE

\* v.k: the member of an object, undefined when absent or when v is not an
\* object; reading a property of null or undefined is a TypeError, which
\* the callers below test with IsNullish before they read.
IsNullish(v) == Tag(v) \in {"null", "undefined"}
Get(v, k) ==
  IF IsObj(v) /\ \E i \in 1..Len(Payload(v)) : Payload(v)[i][1] = k
  THEN Payload(v)[CHOOSE i \in 1..Len(Payload(v)) : Payload(v)[i][1] = k][2]
  ELSE Undefined

\* Object.entries(v): the members of an object, the <<index, element>>
\* pairs of an array or a string, nothing for a number or a boolean.
Entries(v) ==
  CASE Tag(v) = "obj" -> Payload(v)
    [] Tag(v) = "arr" -> [i \in 1..Len(Payload(v)) |-> <<EncodeNat(i - 1), Payload(v)[i]>>]
    [] Tag(v) = "str" -> [i \in 1..Len(Payload(v)) |-> <<EncodeNat(i - 1), JStr(<<Payload(v)[i]>>)>>]
    [] OTHER -> <<>>

Return(v) == [kind |-> "return", val |-> v]
Throw == [kind |-> "throw", val |-> Undefined]
EmptyList == JArr(<<>>)

\* The label of a category key: 'Other' unless the lower-cased key is one
\* of the seven known categories.
CategoryOf(key) ==
  LET lowerKey == ToLowerCase(key)
  IN IF \E i \in 1..Len(CategoryKeys) : CategoryKeys[i] = lowerKey
     THEN CategoryLabels[CHOOSE i \in 1..Len(CategoryKeys) : CategoryKeys[i] = lowerKey]
     ELSE LabelOther

\* name.charAt(0).toUpperCase() + name.slice(1)
TitleCase(name) ==
  IF name = <<>> THEN <<>> ELSE ToUpperCase(<<name[1]>>) \o SubSeq(name, 2, Len(name))

FridgeItemOf(name, category) ==
  JObj(<< <<KName, JStr(TitleCase(name))>>, <<KCategory, JStr(category)>>,
          <<KIsPrioritized, JFalse>> >>)

\* The items one category contributes: nothing unless its value is an
\* array; a name that is not a string makes name.charAt throw.
CategoryThrows(items) ==
  IsArr(items) /\ \E i \in 1..Len(Payload(items)) : Tag(Payload(items)[i]) # "str"
CategoryItems(key, items) ==
  IF IsArr(items)
  THEN [i \in 1..Len(Payload(items)) |-> FridgeItemOf(Payload(Payload(items)[i]), CategoryOf(key))]
  ELSE <<>>

RECURSIVE ConcatItems(_, _)
ConcatItems(es, i) ==
  IF i > Len(es) THEN <<>> ELSE CategoryItems(es[i][1], es[i][2]) \o ConcatItems(es, i + 1)

\* { ...item, isPrioritized: false }
SpreadPrioritized(item) ==
  JObj(PutMember(Entries(item), KIsPrioritized, JFalse))

\* analyzeFridgeImage after the parse, data not null.
MapFridgeData(data) ==
  IF Truthy(Get(data, KCategories))
  THEN LET es == Entries(Get(data, KCategories))
       IN IF \E i \in 1..Len(es) : CategoryThrows(es[i][2]) THEN Throw
          ELSE Return(JArr(ConcatItems(es, 1)))
  ELSE IF IsArr(data)
  THEN Return(JArr([i \in 1..Len(Payload(data)) |-> SpreadPrioritized(Payload(data)[i])]))
  ELSE Return(EmptyList)

\* Mutant of analyzeFridgeImage: the "if (!data) return []" line is missing,
\* so data.categories is read on null and the TypeError is re-thrown.
analyzeFridgeImageNoGuard(req, t) ==
  IF req # "ok" THEN Throw
  ELSE LET data == parseModelJSON(t).val
       IN IF IsNullish(data) THEN Throw ELSE MapFridgeData(data)

\* analyzeFridgeImage: a failed resize or request is re-thrown by the catch.
analyzeFridgeImage(req, t) ==
  IF req # "ok" THEN Throw
  ELSE LET data == parseModelJSON(t).val
       IN IF ~Truthy(data) THEN Return(EmptyList) ELSE MapFridgeData(data)

\* x || []
OrEmptyList(x) == IF Truthy(x) THEN x ELSE EmptyList

\* Mutant of generateRecipes: the catch re-throws.
generateRecipesRethrows(req, t) ==
  IF req # "ok" THEN Throw
  ELSE LET data == parseModelJSON(t).val
       IN IF ~Truthy(data) THEN Return(EmptyList)
          ELSE Return(OrEmptyList(Get(data, KRecipes)))

\* generateRecipes: the catch returns [].
generateRecipes(req, t) ==
  IF req # "ok" THEN Return(EmptyList)
  ELSE LET data == parseModelJSON(t).val
       IN IF ~Truthy(data) THEN Return(EmptyList)
          ELSE Return(OrEmptyList(Get(data, KRecipes)))

\* suggestSubstitutions: data?.substitutions || [].
suggestSubstitutions(req, t) ==
  IF req # "ok" THEN Return(EmptyList)
  ELSE LET data == parseModelJSON(t).val
       IN Return(OrEmptyList(IF IsNullish(data) THEN Undefined ELSE Get(data, KSubstitutions)))

\* calculateWasteScore: the parse result as it is; null on a failed request.
calculateWasteScore(req, t) ==
  IF req # "ok" THEN Return(JNull) ELSE Return(parseModelJSON(t).val)

\* findGroceryStores: data?.stores || [].
findGroceryStores(req, t) ==
  IF req # "ok" THEN Return(EmptyList)
  ELSE LET data == parseModelJSON(t).val
       IN Return(OrEmptyList(IF IsNullish(data) THEN Undefined ELSE Get(data, KStores)))

(***************************************************************************)
(* The call-site specification: one call of one exported function, the    *)
(* Gateway answering with any of the response texts or failing.            *)
(***************************************************************************)
CallSites == {"analyzeFridgeImage", "generateRecipes", "suggestSubstitutions",
              "calculateWasteScore", "findGroceryStores"}

ItemA == JStr(<<"m", "i", "l", "k">>)
ResponseValues ==
  { JObj(<<>>),
    JObj(<< <<KCategories, JObj(<< <<(<<"P", "r", "o", "d", "u", "c", "e">>), JArr(<<ItemA>>)>>,
                                   <<(<<"x">>), JArr(<<ItemA, JStr(<<>>)>>)>>,
                                   <<(<<"d", "a", "i", "r", "y">>), JStr(<<"a">>)>> >>)>> >>),
    JObj(<< <<KCategories, JObj(<< <<(<<"d", "a", "i", "r", "y">>), JArr(<<JNum(87)>>)>> >>)>> >>),
    JObj(<< <<KCategories, JArr(<<JArr(<<ItemA>>)>>)>> >>),
    JObj(<< <<KRecipes, JArr(<<JObj(<< <<KId, JStr(<<"a">>)>> >>)>>)>> >>),
    JObj(<< <<KRecipes, JNull>> >>),
    JObj(<< <<KSubstitutions, JArr(<<JObj(<< <<KName, ItemA>> >>)>>)>> >>),
    JObj(<< <<KStores, JArr(<<JObj(<< <<KName, JStr(<<"{">>)>> >>)>>)>> >>),
    JObj(<< <<KStores, JArr(<<>>)>>, <<KRecipes, JNum(0)>> >>),
    JObj(<< <<KScore, JNum(87)>> >>),
    JArr(<<JObj(<< <<KName, ItemA>> >>)>>),
    JArr(<<ItemA>>),
    ItemA }

NothingFound == <<"I", " ", "f", "o", "u", "n", "d", " ", "n", "o", "t", "h", "i", "n", "g", ".">>
\* A response cut off by the Gateway after its first k characters.
Truncated(v, k) ==
  LET enc == jsonEncode(v) IN SubSeq(enc, 1, IF k < Len(enc) THEN k ELSE Len(enc))
ResponseTexts ==
  {WrapText(v, w) : v \in ResponseValues, w \in Wraps}
  \cup {<<>>, NothingFound, <<"{">>, <<"{", "a", "}">>}
  \cup {Truncated(v, MaxCut) : v \in ResponseValues}

CallsInit ==
  /\ ParserIdle
  /\ LiveIdle
  /\ site \in CallSites
  /\ reqOutcome \in {"ok", "reject", "resizeError"}
  /\ reqOutcome = "resizeError" => site = "analyzeFridgeImage"
  /\ respText \in ResponseTexts
  /\ cpc = "called"
  /\ outcome = [kind |-> "none", val |-> Undefined]

Finish(o) ==
  /\ cpc = "called"
  /\ outcome' = o
  /\ cpc' = "returned"
  /\ UNCHANGED <<site, reqOutcome, respText>>
  /\ UNCHANGED <<parserVars, sessionVars, appVars>>

AnalyzeFridgeImage ==
  site = "analyzeFridgeImage" /\ Finish(analyzeFridgeImage(reqOutcome, respText))
GenerateRecipes ==
  site = "generateRecipes" /\ Finish(generateRecipes(reqOutcome, respText))
SuggestSubstitutions ==
  site = "suggestSubstitutions" /\ Finish(suggestSubstitutions(reqOutcome, respText))
CalculateWasteScore ==
  site = "calculateWasteScore" /\ Finish(calculateWasteScore(reqOutcome, respText))
FindGroceryStores ==
  site = "findGroceryStores" /\ Finish(findGroceryStores(reqOutcome, respText))

CallsNext ==
  \/ AnalyzeFridgeImage
  \/ GenerateRecipes
  \/ SuggestSubstitutions
  \/ CalculateWasteScore
  \/ FindGroceryStores

SpecCalls == CallsInit /\ [][CallsNext]_vars

(***************************************************************************)
(* generateSpeech, and the call sites when the request is rejected.  The    *)
(* reply of the speech request is the base64 text of its audio part ("" *)
(* when there is none); the ArrayBuffer returned is represented by its     *)
(* byte length.                                                            *)
(***************************************************************************)
Base64Chars == {"A", "Q"}
Base64Pad == "="
SpeechReplies ==
  {<<>>, <<"A", "A", "A", "A">>, <<"A", "Q", "=", "=">>, <<"A", "Q", "A">>,
   <<"A">>, <<"{", "}">>}

\* atob throws on a character outside the alphabet and on a length that no
\* byte sequence encodes.
AtobThrows(t) ==
  \/ \E i \in 1..Len(t) : t[i] \notin Base64Chars \cup {Base64Pad}
  \/ Len(t) % 4 = 1
ByteLength(t) ==
  LET data == SelectSeq(t, LAMBDA c : c # Base64Pad)
  IN (Len(data) * 3) \div 4

\* generateSpeech: no audio in the reply is an error; every error is
\* re-thrown by the catch.
generateSpeech(req, t) ==
  IF req # "ok" THEN Throw
  ELSE IF t = <<>> THEN Throw
  ELSE IF AtobThrows(t) THEN Throw
  ELSE Return(JNum(ByteLength(t)))

SpeechSite == "generateSpeech"

SpeechInit ==
  /\ ParserIdle
  /\ LiveIdle
  /\ site = SpeechSite
  /\ reqOutcome \in {"ok", "reject"}
  /\ respText \in SpeechReplies
  /\ cpc = "called"
  /\ outcome = [kind |-> "none", val |-> Undefined]

GenerateSpeech ==
  site = SpeechSite /\ Finish(generateSpeech(reqOutcome, respText))

RequestsInit == CallsInit \/ SpeechInit

RequestsNext ==
  \/ AnalyzeFridgeImage
  \/ GenerateRecipes
  \/ SuggestSubstitutions
  \/ CalculateWasteScore
  \/ FindGroceryStores
  \/ GenerateSpeech

SpecRequests == RequestsInit /\ [][RequestsNext]_vars

(***************************************************************************)
(* The duplex voice session: one LiveClient object and its callers.        *)
(*                                                                         *)
(* connect() call f creates the audio contexts InCtx(f) and OutCtx(f),     *)
(* the capture track f and the stream-open promise f.  JavaScript runs     *)
(* one task at a time: a browser or Gateway event (the microphone answer,  *)
(* the stream open settling) starts only when the microtask queue is       *)
(* empty, and the continuation of an await on a settled promise is a       *)
(* microtask.  Callers call connect() and disconnect() from synchronous    *)
(* code, so a call starts only while the queue is not being drained.       *)
(***************************************************************************)
InCtx(f) == 2 * f - 1
OutCtx(f) == 2 * f

Res(kind, id) == <<kind, id>>

\* The resources held at the browser and the Gateway: running audio
\* contexts, live capture tracks, network streams opening or open.
AcquiredIn(cs, ts, pr) ==
  {Res("ctx", c) : c \in {x \in CtxIds : cs[x] = "running"}}
  \cup {Res("track", t) : t \in {x \in ConnIds : ts[x] = "live"}}
  \cup {Res("net", p) : p \in {x \in ConnIds : pr[x] \in {"pending", "open"}}}

Acquired == AcquiredIn(ctxState, trackState, promise)

HasFree(S, f) == \E i \in S : f[i].pc = "none"
FirstFree(S, f) == CHOOSE i \in S : f[i].pc = "none" /\ \A j \in S : j < i => f[j].pc # "none"
ConnectsCalled == Cardinality({f \in ConnIds : conn[f].pc # "none"})

\* A continuation: of a disconnect() frame ("disc"), of the then() of a
\* capture frame ("send"), of an onmessage handler ("play").
Task(kind, id) == <<kind, id>>
IsTask(e, kind) == e[1] = kind

\* Continuations run in the order they were registered.
EnqueueFront(q, e) == <<e>> \o q
Enqueue(q, e) == Append(q, e)

\* connect() up to its await of getUserMedia: the two audio contexts are
\* created and stored; a constructor that throws (hw) ends the call.
ConnectCall(hw) ==
  /\ ~draining
  /\ HasFree(ConnIds, conn)
  /\ LET f == FirstFree(ConnIds, conn)
     IN CASE hw = "inputFails" ->
               /\ conn' = [conn EXCEPT ![f].pc = "rejected"]
               /\ UNCHANGED <<inputAudioContext, outputAudioContext, ctxState>>
          [] hw = "outputFails" ->
               /\ inputAudioContext' = InCtx(f)
               /\ ctxState' = [ctxState EXCEPT ![InCtx(f)] = "running"]
               /\ conn' = [conn EXCEPT ![f].pc = "rejected",
                                       ![f].made = {Res("ctx", InCtx(f))}]
               /\ UNCHANGED outputAudioContext
          [] hw = "ok" ->
               /\ inputAudioContext' = InCtx(f)
               /\ outputAudioContext' = OutCtx(f)
               /\ ctxState' = [ctxState EXCEPT ![InCtx(f)] = "running",
                                               ![OutCtx(f)] = "running"]
               /\ conn' = [conn EXCEPT ![f].pc = "awaitMic",
                             ![f].made = {Res("ctx", InCtx(f)), Res("ctx", OutCtx(f))}]
  /\ UNCHANGED <<sessionPromise, stream, promise, trackState, disc, waiters,
                 micro, draining, unhandled>>
  /\ UNCHANGED <<appVars, parserVars, callVars, eventVars, captureVars, playVars>>

\* getUserMedia resolves and connect() f runs to its end: the capture stream
\* is stored, the processing graph is built on the current input context and
\* the stream open is started (not awaited).  Building a source node on a
\* context that a disconnect() has closed meanwhile may throw (srcThrows).
MicGranted(f, srcThrows) ==
  /\ micro = <<>>
  /\ conn[f].pc = "awaitMic"
  /\ stream' = f
  /\ trackState' = [trackState EXCEPT ![f] = "live"]
  /\ IF srcThrows
     THEN /\ ctxState[inputAudioContext] = "closed"
          /\ conn' = [conn EXCEPT ![f].pc = "rejected",
                                  ![f].made = @ \cup {Res("track", f)}]
          /\ UNCHANGED <<sessionPromise, promise>>
     ELSE /\ sessionPromise' = f
          /\ promise' = [promise EXCEPT ![f] = "pending"]
          /\ conn' = [conn EXCEPT ![f].pc = "resolved",
                                  ![f].made = @ \cup {Res("track", f), Res("net", f)},
                                  ![f].graph = inputAudioContext]
  /\ UNCHANGED <<inputAudioContext, outputAudioContext, ctxState, disc, waiters,
                 micro, draining, unhandled>>
  /\ UNCHANGED <<appVars, parserVars, callVars, eventVars, captureVars, playVars>>

\* getUserMedia rejects (permission denied): connect() f throws at its await.
MicDenied(f) ==
  /\ micro = <<>>
  /\ conn[f].pc = "awaitMic"
  /\ conn' = [conn EXCEPT ![f].pc = "rejected"]
  /\ UNCHANGED <<sessionPromise, inputAudioContext, outputAudioContext, stream,
                 promise, ctxState, trackState, disc, waiters, micro, draining,
                 unhandled>>
  /\ UNCHANGED <<appVars, parserVars, callVars, eventVars, captureVars, playVars>>

\* The stream open settles: the promise is fulfilled with an open session
\* or rejected; the continuations waiting for it are queued in order.  On a
\* rejection an awaiting disconnect() resumes (to throw) while a then()
\* without a rejection handler is not called: its derived promise is
\* rejected and nobody handles it, as with a rejection nobody waits for.
StreamSettles(p, opened) ==
  /\ micro = <<>>
  /\ promise[p] = "pending"
  /\ promise' = [promise EXCEPT ![p] = IF opened THEN "open" ELSE "rejected"]
  /\ micro' = IF opened THEN waiters[p]
              ELSE SelectSeq(waiters[p], LAMBDA e : IsTask(e, "disc"))
  /\ draining' = (micro' # <<>>)
  /\ waiters' = [waiters EXCEPT ![p] = <<>>]
  /\ unhandled' = unhandled
       \cup (IF ~opened /\ waiters[p] = <<>> THEN {"streamOpen"} ELSE {})
       \cup (IF ~opened /\ \E i \in 1..Len(waiters[p]) : IsTask(waiters[p][i], "send")
             THEN {"then"} ELSE {})
  /\ UNCHANGED <<sessionPromise, inputAudioContext, outputAudioContext, stream,
                 ctxState, trackState, conn, disc>>
  /\ UNCHANGED <<appVars, parserVars, callVars, eventVars, captureVars, playVars>>

StreamOpened(p) == StreamSettles(p, TRUE)
StreamFailed(p) == StreamSettles(p, FALSE)

\* AudioContext.close(): the context is closed; on a context already closed
\* the promise close() returns is rejected, and nobody handles it.
CloseCtx(cs, c) == IF c = 0 THEN cs ELSE [cs EXCEPT ![c] = "closed"]
CloseRejects(cs, c) == c # 0 /\ cs[c] = "closed"

\* The steps of disconnect(), in order.
AllSteps == {"closeStream", "stopTracks", "closeInput", "closeOutput", "stopSources"}

\* The connect() calls in progress: suspended on the microphone, or with
\* the stream open they started still pending.
InProgress ==
  {f \in ConnIds : conn[f].pc = "awaitMic"
                   \/ (conn[f].pc = "resolved" /\ promise[f] = "pending")}

\* The release steps of disconnect() after the session is dealt with: stop
\* the tracks of the stored stream, close both stored contexts (the fields
\* are left as they are), stop every source of the active set and clear the
\* set.  d ends resolved; left records what is still acquired at that
\* moment, pr being the promise states then.
Release(d, pr) ==
  /\ trackState' = IF stream = 0 THEN trackState
                   ELSE [trackState EXCEPT ![stream] = "stopped"]
  /\ ctxState' = CloseCtx(CloseCtx(ctxState, inputAudioContext), outputAudioContext)
  /\ unhandled' = unhandled
        \cup (IF CloseRejects(ctxState, inputAudioContext) THEN {"closeInput"} ELSE {})
        \cup (IF CloseRejects(CloseCtx(ctxState, inputAudioContext), outputAudioContext)
              THEN {"closeOutput"} ELSE {})
  /\ chunks' = [m \in 1..Len(chunks) |->
                  IF m \in sources THEN [chunks[m] EXCEPT !.stopped = TRUE]
                  ELSE chunks[m]]
  /\ sources' = {}
  /\ disc' = [disc EXCEPT ![d].pc = "resolved",
                          ![d].connects = ConnectsCalled,
                          ![d].mid = IF disc[d].pc = "await" THEN @ ELSE InProgress,
                          ![d].steps = AllSteps,
                          ![d].left = AcquiredIn(ctxState', trackState', pr)]

\* disconnect() up to its await: with a session promise stored the call
\* waits for it (a microtask when it is already settled); without one the
\* release steps run at once.
DisconnectCall ==
  /\ ~draining
  /\ HasFree(DiscIds, disc)
  /\ LET d == FirstFree(DiscIds, disc)
     IN IF sessionPromise # 0
        THEN /\ disc' = [disc EXCEPT ![d].pc = "await", ![d].p = sessionPromise,
                                     ![d].connects = ConnectsCalled,
                                     ![d].mid = InProgress]
             /\ IF promise[sessionPromise] = "pending"
                THEN /\ waiters' = [waiters EXCEPT
                                      ![sessionPromise] = Enqueue(@, Task("disc", d))]
                     /\ UNCHANGED micro
                ELSE /\ micro' = Enqueue(micro, Task("disc", d))
                     /\ UNCHANGED waiters
             /\ UNCHANGED <<ctxState, trackState, unhandled, chunks, sources>>
        ELSE /\ Release(d, promise)
             /\ UNCHANGED <<waiters, micro>>
  /\ UNCHANGED <<sessionPromise, inputAudioContext, outputAudioContext, stream,
                 promise, conn, draining>>
  /\ UNCHANGED <<appVars, parserVars, callVars, eventVars, captureVars, clock, nextStartTime>>

\* disconnect() d resumes after "await this.sessionPromise": a rejected
\* promise throws out of disconnect(); otherwise the session is closed, the
\* field is nulled and the release steps run.
DisconnectResume ==
  /\ micro # <<>>
  /\ IsTask(Head(micro), "disc")
  /\ LET d == Head(micro)[2]
         p == disc[d].p
     IN IF promise[p] = "rejected"
        THEN /\ disc' = [disc EXCEPT ![d].pc = "rejected",
                                     ![d].connects = ConnectsCalled,
                                     ![d].left = Acquired]
             /\ UNCHANGED <<sessionPromise, promise, ctxState, trackState,
                            unhandled, chunks, sources>>
        ELSE /\ promise' = [promise EXCEPT ![p] = "closed"]
             /\ sessionPromise' = 0
             /\ Release(d, promise')
  /\ micro' = Tail(micro)
  /\ draining' = (Tail(micro) # <<>>)
  /\ UNCHANGED <<inputAudioContext, outputAudioContext, stream, conn, waiters>>
  /\ UNCHANGED <<appVars, parserVars, callVars, eventVars, captureVars, clock, nextStartTime>>

\* An onerror callback that tears the session down.
TransportErrorTearsDown(p) ==
  /\ micro = <<>>
  /\ promise[p] = "open"
  /\ errorsSeen < MaxErrors
  /\ errorsSeen' = errorsSeen + 1
  /\ ctxState' = CloseCtx(CloseCtx(ctxState, inputAudioContext), outputAudioContext)
  /\ UNCHANGED <<sessionPromise, inputAudioContext, outputAudioContext, stream,
                 promise, trackState, conn, disc, waiters, micro, draining,
                 unhandled, callbacks>>
  /\ UNCHANGED <<appVars, parserVars, callVars, captureVars, playVars>>

\* The transport reports an error on an open stream: the onerror callback
\* writes to the console.
TransportError(p) ==
  /\ micro = <<>>
  /\ promise[p] = "open"
  /\ errorsSeen < MaxErrors
  /\ errorsSeen' = errorsSeen + 1
  /\ UNCHANGED callbacks
  /\ UNCHANGED <<appVars, parserVars, callVars, liveVars, captureVars, playVars>>

\* The transport closes an open stream: the onclose callback writes to the
\* console.  The session promise stays fulfilled; its stream is lost.
TransportClose(p) ==
  /\ micro = <<>>
  /\ promise[p] = "open"
  /\ promise' = [promise EXCEPT ![p] = "lost"]
  /\ UNCHANGED <<sessionPromise, inputAudioContext, outputAudioContext, stream,
                 ctxState, trackState, conn, disc, waiters, micro, draining,
                 unhandled>>
  /\ UNCHANGED <<appVars, parserVars, callVars, eventVars, captureVars, playVars>>

LiveInit == ParserIdle /\ CallsIdle /\ LiveIdle

LiveNext ==
  \/ \E hw \in {"ok", "inputFails", "outputFails"} : ConnectCall(hw)
  \/ \E f \in ConnIds, srcThrows \in BOOLEAN : MicGranted(f, srcThrows)
  \/ \E f \in ConnIds : MicDenied(f)
  \/ \E p \in ConnIds : StreamOpened(p)
  \/ \E p \in ConnIds : StreamFailed(p)
  \/ DisconnectCall
  \/ DisconnectResume
  \/ \E p \in ConnIds : TransportError(p)
  \/ \E p \in ConnIds : TransportClose(p)

SpecLive == LiveInit /\ [][LiveNext]_vars

(***************************************************************************)
(* Capture: the onaudioprocess callback of the processor node and the      *)
(* then() continuations that transmit the frames.                          *)
(***************************************************************************)
\* What one firing of the callback does, st being the state of the stored
\* session promise ("absent" when the field is null): it never throws and
\* never waits; with a promise stored it registers a then() on it.
onaudioprocessNoGuard(st) ==
  [raised |-> st = "absent", waited |-> FALSE,
   then |-> CASE st = "absent" -> "none"
              [] st = "pending" -> "waiter"
              [] st = "rejected" -> "unhandled"
              [] OTHER -> "micro"]

onaudioprocess(st) ==
  [raised |-> FALSE, waited |-> FALSE,
   then |-> CASE st = "absent" -> "none"
              [] st = "pending" -> "waiter"
              [] st = "rejected" -> "unhandled"
              [] OTHER -> "micro"]

\* The processor node of connect() f fires with a frame while the context
\* its graph was built on is running.  The frame is bound to the session
\* promise stored at that moment.
AudioProcess(f) ==
  /\ micro = <<>>
  /\ Len(frames) < MaxFrames
  /\ conn[f].graph # 0
  /\ ctxState[conn[f].graph] = "running"
  /\ LET k == Len(frames) + 1
         sp == sessionPromise
         st == IF sp = 0 THEN "absent" ELSE promise[sp]
         r == onaudioprocess(st)
     IN /\ frames' = Append(frames, [by |-> f, to |-> sp, at |-> st,
                                      raised |-> r.raised, waited |-> r.waited])
        /\ waiters' = IF r.then = "waiter"
                       THEN [waiters EXCEPT ![sp] = Enqueue(@, Task("send", k))]
                       ELSE waiters
        /\ micro' = IF r.then = "micro" THEN Enqueue(micro, Task("send", k)) ELSE micro
        /\ draining' = (micro' # <<>>)
        /\ unhandled' = IF r.then = "unhandled" THEN unhandled \cup {"then"}
                         ELSE unhandled
  /\ UNCHANGED <<sessionPromise, inputAudioContext, outputAudioContext, stream,
                 promise, ctxState, trackState, conn, disc, sent>>
  /\ UNCHANGED <<appVars, parserVars, callVars, eventVars, playVars, blobVars>>

\* The then() continuation of frame k runs with the session of its promise:
\* the frame is transmitted when the stream is open; on a session already
\* closed nothing is transmitted.
SendFrame ==
  /\ micro # <<>>
  /\ IsTask(Head(micro), "send")
  /\ LET k == Head(micro)[2]
         to == frames[k].to
     IN IF promise[to] = "open"
        THEN sent' = Append(sent, <<k, to>>) /\ UNCHANGED unhandled
        ELSE unhandled' = unhandled \cup {"sendClosed"} /\ UNCHANGED sent
  /\ micro' = Tail(micro)
  /\ draining' = (Tail(micro) # <<>>)
  /\ UNCHANGED <<sessionPromise, inputAudioContext, outputAudioContext, stream,
                 promise, ctxState, trackState, conn, disc, waiters, frames>>
  /\ UNCHANGED <<appVars, parserVars, callVars, eventVars, playVars, blobVars>>

CaptureInit == LiveInit

CaptureNext ==
  \/ \E hw \in {"ok", "inputFails", "outputFails"} : ConnectCall(hw)
  \/ \E f \in ConnIds, srcThrows \in BOOLEAN : MicGranted(f, srcThrows)
  \/ \E f \in ConnIds : MicDenied(f)
  \/ \E p \in ConnIds : StreamOpened(p)
  \/ \E p \in ConnIds : StreamFailed(p)
  \/ DisconnectCall
  \/ DisconnectResume
  \/ \E p \in ConnIds : TransportClose(p)
  \/ \E f \in ConnIds : AudioProcess(f)
  \/ SendFrame

SpecCapture == CaptureInit /\ [][CaptureNext]_vars

(***************************************************************************)
(* createBlob: the conversion of one captured sample to 16-bit PCM.        *)
(* A sample s is the rational sample / SampleScale, so that s * 32768 is   *)
(* sample / HalfSteps and takes integer and half-integer values.           *)
(***************************************************************************)
FullScale == 32768
SampleScale == 2 * FullScale
HalfSteps == SampleScale \div FullScale
Int16Modulus == 2 * FullScale

\* Samples of [-1, 1]: those near zero and those near each end.
Samples ==
  {q \in -SampleScale..SampleScale :
     \/ q <= -SampleScale + EdgeWidth
     \/ (-EdgeWidth <= q /\ q <= EdgeWidth)
     \/ q >= SampleScale - EdgeWidth}

\* n / d with the fraction dropped (toward zero).
Trunc(n, d) == IF n >= 0 THEN n \div d ELSE -((-n) \div d)

\* The store into an Int16Array element: the number is truncated and
\* reduced modulo 2^16 into -32768..32767.
ToInt16(n, d) ==
  ((Trunc(n, d) + Int16Modulus \div 2) % Int16Modulus) - Int16Modulus \div 2

\* int16[i] = data[i] * 32768
createBlob(q) == [made |-> TRUE, int16 |-> ToInt16(q, HalfSteps)]

BlobInit ==
  /\ ParserIdle /\ CallsIdle /\ SessionIdle /\ AppIdle
  /\ sample \in Samples
  /\ blob = NoBlob

CreateBlob ==
  /\ ~blob.made
  /\ blob' = createBlob(sample)
  /\ UNCHANGED <<appVars, parserVars, callVars, liveVars, eventVars, playVars, frames, sent, sample>>

BlobNext == CreateBlob
SpecBlob == BlobInit /\ [][BlobNext]_vars

(***************************************************************************)
(* Playback: the onmessage callback.  An inbound message carries an audio  *)
(* chunk (its duration; NoAudio when it has none; BadAudio when its bytes  *)
(* do not decode) and the transcript fragments of the two directions ("" *)
(* when absent or empty).  The callback is an async function suspended     *)
(* once, at "await decodeAudioData(...)"; decodeAudioData awaits nothing,  *)
(* so its promise is settled when the await starts and the continuation is *)
(* a microtask.  The transport may deliver several messages back to back,  *)
(* before the continuations of the earlier ones have run.                  *)
(***************************************************************************)
NoAudio == 0
BadAudio == -1
Durations == 1..MaxDuration
Texts == {"", "t"}
Messages == [audio : {NoAudio, BadAudio} \cup Durations, inText : Texts, outText : Texts]

\* Mutant of Max: the cursor is kept, the clock ignored.
KeepCursor(a, b) == a

Max(a, b) == IF a >= b THEN a ELSE b

\* Mutant of Transcribe: the callback is called for every message.
TranscribeAlways(cb, msg) ==
  Append(cb, [kind |-> "transcription", inText |-> msg.inText,
              outText |-> msg.outText])

\* "Handle Transcription": one call of the caller's callback when a
\* fragment is non-empty.
Transcribe(cb, msg) ==
  IF msg.inText # "" \/ msg.outText # ""
  THEN Append(cb, [kind |-> "transcription", inText |-> msg.inText,
                   outText |-> msg.outText])
  ELSE cb

\* The number of calls the transcription part makes to the callback.
Calls(msg) == IF msg.inText # "" \/ msg.outText # "" THEN 1 ELSE 0

\* The record kept of one inbound message: the stream it came from, the
\* handler's position, the cursor and the clock of the output context when
\* it arrived (cursorIn, clockIn) and when its source was started
\* (cursorAt, clockAt), the start time and context of its source, whether
\* it arrived while an earlier handler was suspended, whether its source was
\* stopped and has ended, the calls it made to the caller's callback and
\* the place of its call among all the calls made (0 when it made none).
Chunk(p, msg, pc, calls) ==
  [from |-> p, msg |-> msg, pc |-> pc, start |-> 0, ctx |-> 0,
   cursorIn |-> nextStartTime,
   clockIn |-> IF outputAudioContext = 0 THEN 0 ELSE clock[outputAudioContext],
   cursorAt |-> 0, clockAt |-> 0,
   overlapped |-> micro # <<>>, stopped |-> FALSE, ended |-> FALSE,
   calls |-> calls,
   callPos |-> IF calls > 0 THEN Len(callbacks) + 1 ELSE 0]

\* A message arrives on the open stream p and onmessage runs up to its
\* await: with audio the cursor is raised to the clock of the output
\* context and the decode is started; without audio the handler runs to
\* its end.  At most max messages are delivered.
OnMessageWithin(p, msg, max) ==
  /\ promise[p] = "open"
  /\ Len(chunks) < max
  /\ \A i \in 1..Len(micro) : IsTask(micro[i], "play")
  /\ LET m == Len(chunks) + 1
         hasAudio == msg.audio # NoAudio /\ outputAudioContext # 0
     IN IF hasAudio
        THEN /\ nextStartTime' = Max(nextStartTime, clock[outputAudioContext])
             /\ chunks' = Append(chunks, Chunk(p, msg, "decoding", 0))
             /\ micro' = Enqueue(micro, Task("play", m))
             /\ draining' = TRUE
             /\ UNCHANGED callbacks
        ELSE /\ chunks' = Append(chunks, Chunk(p, msg, "done", Calls(msg)))
             /\ callbacks' = Transcribe(callbacks, msg)
             /\ UNCHANGED <<nextStartTime, micro, draining>>
  /\ UNCHANGED <<sessionPromise, inputAudioContext, outputAudioContext, stream,
                 promise, ctxState, trackState, conn, disc, waiters, unhandled,
                 errorsSeen, clock, sources>>
  /\ UNCHANGED <<appVars, parserVars, callVars, captureVars>>

OnMessage(p, msg) == OnMessageWithin(p, msg, MaxChunks)

\* onmessage resumes after the decode: undecodable bytes throw out of the
\* handler; otherwise a source is created on the current output context,
\* started at the cursor, the cursor advances by the duration and the
\* source joins the active set; then the transcription part runs.
PlayResume ==
  /\ micro # <<>>
  /\ IsTask(Head(micro), "play")
  /\ LET m == Head(micro)[2]
         msg == chunks[m].msg
     IN IF msg.audio = BadAudio
        THEN /\ chunks' = [chunks EXCEPT ![m].pc = "failed"]
             /\ unhandled' = unhandled \cup {"onmessage"}
             /\ UNCHANGED <<nextStartTime, sources, callbacks>>
        ELSE /\ chunks' = [chunks EXCEPT ![m].pc = "scheduled",
                                          ![m].start = nextStartTime,
                                          ![m].ctx = outputAudioContext,
                                          ![m].cursorAt = nextStartTime,
                                          ![m].clockAt = clock[outputAudioContext],
                                          ![m].calls = Calls(msg),
                                          ![m].callPos =
                                             IF Calls(msg) > 0
                                             THEN Len(callbacks) + 1 ELSE 0]
             /\ nextStartTime' = nextStartTime + msg.audio
             /\ sources' = sources \cup {m}
             /\ callbacks' = Transcribe(callbacks, msg)
             /\ UNCHANGED unhandled
  /\ micro' = Tail(micro)
  /\ draining' = (Tail(micro) # <<>>)
  /\ UNCHANGED <<sessionPromise, inputAudioContext, outputAudioContext, stream,
                 promise, ctxState, trackState, conn, disc, waiters, errorsSeen,
                 clock>>
  /\ UNCHANGED <<appVars, parserVars, callVars, captureVars>>

\* The clock (currentTime) of a running output context advances, up to max.
ClockTickWithin(f, max) ==
  /\ micro = <<>>
  /\ ctxState[OutCtx(f)] = "running"
  /\ clock[OutCtx(f)] < max
  /\ clock' = [clock EXCEPT ![OutCtx(f)] = @ + 1]
  /\ UNCHANGED <<chunks, nextStartTime, sources>>
  /\ UNCHANGED <<appVars, parserVars, callVars, liveVars, eventVars, captureVars>>

ClockTick(f) == ClockTickWithin(f, MaxClock)

\* Mutant of Ended: the listener leaves the source in the active set.
EndedKeepsSource(m) ==
  /\ micro = <<>>
  /\ m \in 1..Len(chunks)
  /\ chunks[m].pc = "scheduled"
  /\ ~chunks[m].ended
  /\ \/ chunks[m].stopped
     \/ /\ ctxState[chunks[m].ctx] = "running"
        /\ clock[chunks[m].ctx] >= chunks[m].start + chunks[m].msg.audio
  /\ chunks' = [chunks EXCEPT ![m].ended = TRUE]
  /\ UNCHANGED <<clock, nextStartTime, sources>>
  /\ UNCHANGED <<appVars, parserVars, callVars, liveVars, eventVars, captureVars>>

\* The 'ended' event of the source of chunk m fires, once: after stop(),
\* or when the clock of its running context has passed its end.  The
\* listener removes the source from the active set.
Ended(m) ==
  /\ micro = <<>>
  /\ m \in 1..Len(chunks)
  /\ chunks[m].pc = "scheduled"
  /\ ~chunks[m].ended
  /\ \/ chunks[m].stopped
     \/ /\ ctxState[chunks[m].ctx] = "running"
        /\ clock[chunks[m].ctx] >= chunks[m].start + chunks[m].msg.audio
  /\ chunks' = [chunks EXCEPT ![m].ended = TRUE]
  /\ sources' = sources \ {m}
  /\ UNCHANGED <<clock, nextStartTime>>
  /\ UNCHANGED <<appVars, parserVars, callVars, liveVars, eventVars, captureVars>>

\* A session just opened: the state the voice session is in after
\* connect(), the microphone granted and the stream open fulfilled.
OpenSession ==
  /\ sessionPromise = 1 /\ inputAudioContext = InCtx(1)
  /\ outputAudioContext = OutCtx(1) /\ stream = 1
  /\ promise = [p \in ConnIds |-> IF p = 1 THEN "open" ELSE "none"]
  /\ ctxState = [c \in CtxIds |-> IF c \in {InCtx(1), OutCtx(1)} THEN "running"
                                   ELSE "none"]
  /\ trackState = [t \in ConnIds |-> IF t = 1 THEN "live" ELSE "none"]
  /\ conn = [f \in ConnIds |->
               IF f = 1
               THEN [pc |-> "resolved",
                     made |-> {Res("ctx", InCtx(1)), Res("ctx", OutCtx(1)),
                               Res("track", 1), Res("net", 1)},
                     graph |-> InCtx(1)]
               ELSE NoConn]
  /\ disc = [d \in DiscIds |-> NoDisc]
  /\ waiters = [p \in ConnIds |-> <<>>]
  /\ micro = <<>>
  /\ draining = FALSE
  /\ unhandled = {}
  /\ errorsSeen = 0
  /\ callbacks = <<>>
  /\ frames = <<>>
  /\ sent = <<>>
  /\ BlobIdle
  /\ clock = [c \in CtxIds |-> 0]
  /\ chunks = <<>>
  /\ nextStartTime = 0
  /\ sources = {}

PlaybackInit == ParserIdle /\ CallsIdle /\ AppIdle /\ OpenSession

PlaybackNext ==
  \/ DisconnectCall
  \/ DisconnectResume
  \/ \E p \in ConnIds, msg \in Messages : OnMessage(p, msg)
  \/ PlayResume
  \/ \E f \in ConnIds : ClockTick(f)
  \/ \E m \in 1..MaxChunks : Ended(m)
  \/ \E p \in ConnIds : TransportError(p)

SpecPlayback == PlaybackInit /\ [][PlaybackNext]_vars

(***************************************************************************)
(* A burst of audio on one open session: up to MaxBurst messages that      *)
(* carry decodable audio and no transcript, arriving at any times up to    *)
(* MaxBurstClock.                                                          *)
(***************************************************************************)
AudioOnly(d) == [audio |-> d, inText |-> "", outText |-> ""]

Arrive(d) == OnMessageWithin(1, AudioOnly(d), MaxBurst)
Advance == ClockTickWithin(1, MaxBurstClock)

BurstInit == PlaybackInit

BurstNext ==
  \/ \E d \in Durations : Arrive(d)
  \/ PlayResume
  \/ Advance

SpecBurst == BurstInit /\ [][BurstNext]_vars

(***************************************************************************)
(* Audio over connect/disconnect sequences: connect() calls that succeed,  *)
(* disconnect() calls, and messages with decodable audio arriving on any   *)
(* stream that is open.                                                    *)
(***************************************************************************)
ConnectOk == ConnectCall("ok")
MicOk(f) == MicGranted(f, FALSE)
AudioArrives(p, d) == OnMessage(p, AudioOnly(d))

SessionInit == LiveInit

SessionNext ==
  \/ ConnectOk
  \/ \E f \in ConnIds : MicOk(f)
  \/ \E p \in ConnIds : StreamOpened(p)
  \/ DisconnectCall
  \/ DisconnectResume
  \/ \E p \in ConnIds, d \in Durations : AudioArrives(p, d)
  \/ PlayResume

SpecSession == SessionInit /\ [][SessionNext]_vars

(***************************************************************************)
(* The Assistant component: toggleLive.  A tap runs toggleLive with the    *)
(* state of the current render.  With live mode off it creates a new       *)
(* LiveClient and awaits its connect(); with live mode on it awaits        *)
(* disconnect() of the stored client.  Of each LiveClient the model keeps  *)
(* what connect() acquired: the audio contexts (ctx), the capture stream   *)
(* (track) and the network stream (net).                                   *)
(***************************************************************************)
exceptToggle == <<parserVars, callVars, sessionVars, listVars, fetchVars, cookVars>>

\* What disconnect() leaves of a client whose stream is open.
Released(c) == [c EXCEPT !.ctx = FALSE, !.track = FALSE, !.net = "closed"]

\* A tap with live mode off: a new LiveClient is created and connect() is
\* called on it; connect() creates the audio contexts and waits for the
\* microphone.
TapOn ==
  /\ ~isLiveConnected
  /\ Len(taps) < MaxTaps
  /\ LET i == Len(taps) + 1
     IN /\ taps' = Append(taps, [kind |-> "on", client |-> i, pc |-> "connecting"])
        /\ clients' = [clients EXCEPT ![i] = [pc |-> "awaitMic", ctx |-> TRUE,
                                               track |-> FALSE, net |-> "none"]]
  /\ UNCHANGED <<isLiveConnected, liveClient>>
  /\ UNCHANGED exceptToggle

\* The microphone is granted to client i: connect() stores the capture
\* stream, starts the stream open and returns; toggleLive stores the client
\* and turns live mode on.
MicGrantedTo(i) ==
  /\ clients[i].pc = "awaitMic"
  /\ clients' = [clients EXCEPT ![i] = [pc |-> "resolved", ctx |-> TRUE,
                                         track |-> TRUE, net |-> "pending"]]
  /\ taps' = [taps EXCEPT ![i].pc = "done"]
  /\ liveClient' = i
  /\ isLiveConnected' = TRUE
  /\ UNCHANGED exceptToggle

\* The microphone is denied to client i: connect() throws, leaving its
\* contexts running; the catch of toggleLive turns live mode off.
MicDeniedTo(i) ==
  /\ clients[i].pc = "awaitMic"
  /\ clients' = [clients EXCEPT ![i].pc = "rejected"]
  /\ taps' = [taps EXCEPT ![i].pc = "failed"]
  /\ isLiveConnected' = FALSE
  /\ UNCHANGED liveClient
  /\ UNCHANGED exceptToggle

\* The stream open of client i settles.  A disconnect() waiting for it
\* resumes: it releases the client when the stream opened and throws out of
\* toggleLive when the open failed.
NetSettles(i, opened) ==
  /\ clients[i].net = "pending"
  /\ LET waiting == {t \in 1..Len(taps) : taps[t].client = i /\ taps[t].pc = "awaitSession"}
     IN /\ clients' = [clients EXCEPT ![i] =
                         IF ~opened THEN [@ EXCEPT !.net = "rejected"]
                         ELSE IF waiting # {} THEN Released(@)
                         ELSE [@ EXCEPT !.net = "open"]]
        /\ taps' = [t \in 1..Len(taps) |->
                      IF t \in waiting
                      THEN [taps[t] EXCEPT !.pc = IF opened THEN "closing" ELSE "failed"]
                      ELSE taps[t]]
  /\ UNCHANGED <<isLiveConnected, liveClient>>
  /\ UNCHANGED exceptToggle

NetOpens(i) == NetSettles(i, TRUE)
NetFails(i) == NetSettles(i, FALSE)

\* A tap with live mode on: disconnect() is called on the stored client.
\* It waits while the stream open is pending, releases the client when the
\* stream is open, and throws when the open had failed or when the client
\* was released already (its contexts are closed).
TapOff ==
  /\ isLiveConnected
  /\ liveClient # 0
  /\ Len(taps) < MaxTaps
  /\ LET c == liveClient
         pc == CASE clients[c].net = "pending" -> "awaitSession"
                 [] clients[c].net = "open" -> "closing"
                 [] OTHER -> "failed"
     IN /\ taps' = Append(taps, [kind |-> "off", client |-> c, pc |-> pc])
        /\ clients' = IF clients[c].net = "open"
                      THEN [clients EXCEPT ![c] = Released(@)] ELSE clients
  /\ UNCHANGED <<isLiveConnected, liveClient>>
  /\ UNCHANGED exceptToggle

\* disconnect() has returned to the toggleLive call t, which turns live
\* mode off and forgets the client.
TapOffDone(t) ==
  /\ t \in 1..Len(taps)
  /\ taps[t].kind = "off" /\ taps[t].pc = "closing"
  /\ taps' = [taps EXCEPT ![t].pc = "done"]
  /\ isLiveConnected' = FALSE
  /\ liveClient' = 0
  /\ UNCHANGED clients
  /\ UNCHANGED exceptToggle

ToggleInit == ParserIdle /\ CallsIdle /\ LiveIdle

(***************************************************************************)
(* The shopping list of App and the handlers that change it.  A handler    *)
(* reads the list of the render it was created in and queues functional    *)
(* updates; the updates queued within one event are applied in order, each *)
(* to the result of the one before, and the component renders again after  *)
(* the event.                                                              *)
(***************************************************************************)
exceptList == <<parserVars, callVars, sessionVars, toggleVars, fetchVars, cookVars>>

Items == {"egg", "milk", "salt"}
RecipeIngredients == UNION {[1..n -> Items] : n \in 0..MaxIngredients}

Includes(list, item) == \E i \in 1..Len(list) : list[i] = item
\* prev.filter(i => i !== item)
Without(list, item) == SelectSeq(list, LAMBDA i : i # item)

\* The update handleToggleShoppingItem queues for item, seen being the
\* list of the current render, applied to prev.
ToggleUpdate(seen, item, prev) ==
  IF Includes(seen, item) THEN Without(prev, item) ELSE Append(prev, item)

\* The updates of handleAddAllMissing from ingredient i on, applied to prev.
RECURSIVE AddAllFrom(_, _, _, _, _)
AddAllFrom(ings, checked, seen, i, prev) ==
  IF i > Len(ings) THEN prev
  ELSE IF ings[i] \notin checked /\ ~Includes(seen, ings[i])
       THEN AddAllFrom(ings, checked, seen, i + 1, ToggleUpdate(seen, ings[i], prev))
       ELSE AddAllFrom(ings, checked, seen, i + 1, prev)

SetList(list) ==
  /\ Len(list) <= MaxListLen
  /\ shoppingList' = list
  /\ UNCHANGED <<ingredients, checkedState>>
  /\ UNCHANGED exceptList

handleAddToShoppingList(item) ==
  SetList(IF ~Includes(shoppingList, item) THEN Append(shoppingList, item)
          ELSE shoppingList)

handleToggleShoppingItem(item) ==
  SetList(ToggleUpdate(shoppingList, item, shoppingList))

removeFromShoppingList(item) == SetList(Without(shoppingList, item))

handleAddAllMissing ==
  SetList(AddAllFrom(ingredients, checkedState, shoppingList, 1, shoppingList))

handleTogglePrep(ing) ==
  /\ Includes(ingredients, ing)
  /\ checkedState' = IF ing \in checkedState THEN checkedState \ {ing}
                     ELSE checkedState \cup {ing}
  /\ UNCHANGED <<shoppingList, ingredients>>
  /\ UNCHANGED exceptList

ListInit ==
  /\ ParserIdle /\ CallsIdle /\ SessionIdle /\ BlobIdle
  /\ ToggleIdle /\ FetchIdle /\ CookIdle
  /\ shoppingList = <<>>
  /\ ingredients \in RecipeIngredients
  /\ checkedState = {}

ListNext ==
  \/ \E item \in Items : handleAddToShoppingList(item)
  \/ \E item \in Items : handleToggleShoppingItem(item)
  \/ \E item \in Items : removeFromShoppingList(item)
  \/ handleAddAllMissing
  \/ \E ing \in Items : handleTogglePrep(ing)

SpecList == ListInit /\ [][ListNext]_vars

(***************************************************************************)
(* RecipeGenerator.fetchRecipes.  A call is kept in fetches with what it   *)
(* saw and did: whether it asked for more, whether it issued the request,  *)
(* and, once the request has completed, the recipes returned, the list     *)
(* before and after its update and the value of its flag after it.         *)
(***************************************************************************)
exceptFetch == <<parserVars, callVars, sessionVars, toggleVars, listVars, cookVars>>

RecipeIds == {"r1", "r2"}
\* What generateRecipes resolves with: a list of recipes, empty when the
\* request failed.
Results == UNION {[1..n -> RecipeIds] : n \in 0..MaxRes}

handleAddIngredient ==
  /\ pantry < MaxPantry
  /\ pantry' = pantry + 1
  /\ UNCHANGED <<recipes, loading, loadingMore, fetches>>
  /\ UNCHANGED exceptFetch

handleRemoveIngredient ==
  /\ pantry > 0
  /\ pantry' = pantry - 1
  /\ UNCHANGED <<recipes, loading, loadingMore, fetches>>
  /\ UNCHANGED exceptFetch

\* The button that calls fetchRecipes(isLoadMore) is on screen and enabled.
CanPress(isLoadMore) ==
  IF isLoadMore THEN ~loading /\ recipes # <<>> /\ ~loadingMore
  ELSE ~loading

\* fetchRecipes up to its await.
fetchRecipes(isLoadMore) ==
  /\ Len(fetches) < MaxFetches
  /\ CanPress(isLoadMore)
  /\ fetches' = Append(fetches,
       [more |-> isLoadMore, empty |-> pantry = 0, sent |-> pantry # 0,
        done |-> FALSE, threw |-> FALSE, res |-> <<>>, before |-> <<>>, after |-> <<>>,
        flag |-> FALSE])
  /\ IF pantry = 0 THEN UNCHANGED <<loading, loadingMore>>
     ELSE IF isLoadMore THEN loadingMore' = TRUE /\ UNCHANGED loading
     ELSE loading' = TRUE /\ UNCHANGED loadingMore
  /\ UNCHANGED <<pantry, recipes>>
  /\ UNCHANGED exceptFetch

MergeReplaces(isLoadMore, prev, res) == res

\* setRecipes(prev => [...prev, ...res]) or setRecipes(res)
Merge(isLoadMore, prev, res) == IF isLoadMore THEN prev \o res ELSE res

\* fetchRecipes from its await on: the request of call k completes with res.
Completes(k, res) ==
  /\ fetches[k].sent /\ ~fetches[k].done /\ ~fetches[k].threw
  /\ recipes' = Merge(fetches[k].more, recipes, res)
  /\ IF fetches[k].more THEN loadingMore' = FALSE /\ UNCHANGED loading
     ELSE loading' = FALSE /\ UNCHANGED loadingMore
  /\ fetches' = [fetches EXCEPT ![k] =
       [@ EXCEPT !.done = TRUE, !.res = res, !.before = recipes,
                 !.after = recipes',
                 !.flag = IF fetches[k].more THEN loadingMore' ELSE loading']]
  /\ UNCHANGED pantry
  /\ UNCHANGED exceptFetch

\* fetchRecipes from its await on: generateRecipes rejects, and the catch
\* and the finally run.
Rejects(k) ==
  /\ fetches[k].sent /\ ~fetches[k].done /\ ~fetches[k].threw
  /\ IF fetches[k].more THEN loadingMore' = FALSE /\ UNCHANGED loading
     ELSE loading' = FALSE /\ UNCHANGED loadingMore
  /\ fetches' = [fetches EXCEPT ![k] =
       [@ EXCEPT !.threw = TRUE, !.before = recipes, !.after = recipes,
                 !.flag = IF fetches[k].more THEN loadingMore' ELSE loading']]
  /\ UNCHANGED <<pantry, recipes>>
  /\ UNCHANGED exceptFetch

FetchInit ==
  /\ ParserIdle /\ CallsIdle /\ SessionIdle /\ BlobIdle
  /\ ToggleIdle /\ ListIdle /\ CookIdle
  /\ pantry \in 0..1
  /\ recipes = <<>> /\ fetches = <<>>
  /\ loading = FALSE /\ loadingMore = FALSE

FetchNext ==
  \/ handleAddIngredient
  \/ handleRemoveIngredient
  \/ \E isLoadMore \in BOOLEAN : fetchRecipes(isLoadMore)
  \/ \E k \in 1..Len(fetches), res \in Results : Completes(k, res)
  \/ \E k \in 1..Len(fetches) : Rejects(k)

SpecFetch == FetchInit /\ [][FetchNext]_vars

(***************************************************************************)
(* CookingMode: the step shown, the Prev and Next buttons, and playStep.   *)
(***************************************************************************)
exceptCook == <<parserVars, callVars, sessionVars, toggleVars, listVars, fetchVars>>

\* disabled={currentStep === 0}; onClick: setCurrentStep(c => c - 1)
Prev ==
  /\ currentStep # 0
  /\ currentStep' = currentStep - 1
  /\ UNCHANGED <<steps, isPlaying, plays>>
  /\ UNCHANGED exceptCook

\* disabled={currentStep === recipe.steps.length - 1};
\* onClick: setCurrentStep(c => c + 1)
NextStep ==
  /\ currentStep # steps - 1
  /\ currentStep < MaxCurrentStep
  /\ currentStep' = currentStep + 1
  /\ UNCHANGED <<steps, isPlaying, plays>>
  /\ UNCHANGED exceptCook

\* playStep up to the await of generateSpeech, for the step on screen.
playStep ==
  /\ Len(plays) < MaxPlays
  /\ isPlaying' = TRUE
  /\ plays' = Append(plays, [step |-> currentStep, pc |-> "request"])
  /\ UNCHANGED <<steps, currentStep>>
  /\ UNCHANGED exceptCook

\* The speech of call k arrives and is decoded: source.start(0).
SpeechStarts(k) ==
  /\ plays[k].pc = "request"
  /\ plays' = [plays EXCEPT ![k].pc = "playing"]
  /\ UNCHANGED <<steps, currentStep, isPlaying>>
  /\ UNCHANGED exceptCook

\* generateSpeech or decodeAudioData rejects: the catch of playStep.
SpeechFails(k) ==
  /\ plays[k].pc = "request"
  /\ plays' = [plays EXCEPT ![k].pc = "failed"]
  /\ isPlaying' = FALSE
  /\ UNCHANGED <<steps, currentStep>>
  /\ UNCHANGED exceptCook

\* source.onended
SpeechEnds(k) ==
  /\ plays[k].pc = "playing"
  /\ plays' = [plays EXCEPT ![k].pc = "ended"]
  /\ isPlaying' = FALSE
  /\ UNCHANGED <<steps, currentStep>>
  /\ UNCHANGED exceptCook

CookInit ==
  /\ ParserIdle /\ CallsIdle /\ SessionIdle /\ BlobIdle
  /\ ToggleIdle /\ ListIdle /\ FetchIdle
  /\ steps \in 0..MaxSteps
  /\ currentStep = 0
  /\ isPlaying = FALSE
  /\ plays = <<>>

CookNext ==
  \/ Prev
  \/ NextStep
  \/ playStep
  \/ \E k \in 1..Len(plays) : SpeechStarts(k)
  \/ \E k \in 1..Len(plays) : SpeechFails(k)
  \/ \E k \in 1..Len(plays) : SpeechEnds(k)

SpecCook == CookInit /\ [][CookNext]_vars

ToggleNext ==
  \/ TapOn
  \/ \E i \in TapIds : MicGrantedTo(i)
  \/ \E i \in TapIds : MicDeniedTo(i)
  \/ \E i \in TapIds : NetOpens(i)
  \/ \E i \in TapIds : NetFails(i)
  \/ TapOff
  \/ \E t \in TapIds : TapOffDone(t)

SpecToggle == ToggleInit /\ [][ToggleNext]_vars

(***************************************************************************)
(* Properties of the parser.                                               *)
(***************************************************************************)
Done == ppc = "done"
HasChar(cs, c) == \E i \in 1..Len(cs) : cs[i] = c
HasSub(cs, pat) == \E i \in 1..Len(cs) : MatchAt(cs, i, pat)

\* Every string of a value: its string values and its object keys.
RECURSIVE StringsOf(_)
StringsOf(v) ==
  CASE Tag(v) = "str" -> {Payload(v)}
    [] Tag(v) = "arr" -> UNION {StringsOf(Payload(v)[i]) : i \in 1..Len(Payload(v))}
    [] Tag(v) = "obj" ->
         UNION {{Payload(v)[i][1]} \cup StringsOf(Payload(v)[i][2]) : i \in 1..Len(Payload(v))}
    [] OTHER -> {}

NoFenceInside(v) == \A cs \in StringsOf(v) : ~HasSub(cs, Fence)
NoOpenBraceInside(v) == \A cs \in StringsOf(v) : ~HasChar(cs, "{")

\* C1: for every input string the call of parseModelJSON ends with a decoded
\* value or with null; no exception reaches the caller.
C1_ParserTotal ==
  Done => /\ result.kind \in {"value", "null"}
          /\ result.kind = "null" => result.val = JNull

\* C1 witness: a text whose three decode attempts all failed, the last one
\* absorbed by the innermost catch.
C1_Witness == Done /\ wrap = "raw" /\ result.path = "finalE" /\ result.decodes = 3

\* C2 as claimed: for every object v, the encoding of v followed by the
\* prose parses to v, braces inside strings included.
C2_TrailingProseAnyObject ==
  (Done /\ wrap = "prose" /\ IsObj(origin))
    => (result.kind = "value" /\ result.val = origin)

\* C2 amended: for every object v none of whose strings holds a '{' or a
\* fence marker, the encoding of v followed by the prose parses to v (a '}'
\* inside a string is recovered by the last resort).
C2_TrailingProse ==
  (Done /\ wrap = "prose" /\ IsObj(origin) /\ NoOpenBraceInside(origin)
     /\ NoFenceInside(origin))
    => (result.kind = "value" /\ result.val = origin)

\* C2 witness: an object with a '}' inside a string, recovered at the last '}'.
C2_Witness ==
  /\ Done /\ wrap = "prose" /\ IsObj(origin)
  /\ \E cs \in StringsOf(origin) : HasChar(cs, "}")
  /\ result.path = "lastBrace" /\ result.val = origin

C5_NoBraceNoDecode ==
  (Done /\ ~HasChar(text, "{")) => (result.kind = "null" /\ result.decodes = 0)

\* C5 witness: a non-empty text with a '}' and a fence marker but no '{'.
C5_Witness ==
  /\ Done /\ text # <<>> /\ ~HasChar(text, "{") /\ HasChar(text, "}")
  /\ result.path = "noBrace"

\* C6: for the clean encoding of a value v the result is v or null, never
\* another value.
C6_NoPartialValue ==
  (Done /\ wrap = "clean")
    => (result.kind = "null" \/ (result.kind = "value" /\ result.val = origin))

\* The text parseModelJSON decodes: fences stripped, cut at the first '{'
\* (empty when there is none).
CleanOf(t) ==
  LET stripped == StripMarkdown(t)
      start == LocateStart(stripped)
  IN IF t = <<>> \/ start = 0 THEN <<>> ELSE SubSeq(stripped, start, Len(stripped))

LastSlice(clean) == SubSeq(clean, 1, LastIndexOf(clean, "}"))

\* The fast path fails and no balanced prefix decodes (there is none, or
\* it is not valid JSON), while the slice up to the last '}' is valid JSON.
OnlyLastSliceDecodes(clean) ==
  /\ clean # <<>>
  /\ ~JSONparse(clean).ok
  /\ BalancedEnd(clean) # 0 => ~JSONparse(SubSeq(clean, 1, BalancedEnd(clean))).ok
  /\ LastIndexOf(clean, "}") # 0
  /\ JSONparse(LastSlice(clean)).ok

\* C29 as claimed: whenever only the slice up to the last '}' decodes, the
\* depth counter never returning to zero included, the parser returns the
\* value of that slice.
C29_LastResortAlways ==
  (Done /\ OnlyLastSliceDecodes(CleanOf(text)))
    => (result.kind = "value" /\ result.val = JSONparse(LastSlice(CleanOf(text))).val)

\* C29 amended: when the depth counter returns to zero, the balanced
\* prefix does not decode and the slice up to the last '}' does, the parser
\* returns the value of that slice.
C29_LastResortAfterBalanced ==
  (Done /\ OnlyLastSliceDecodes(CleanOf(text)) /\ BalancedEnd(CleanOf(text)) # 0)
    => (result.kind = "value" /\ result.val = JSONparse(LastSlice(CleanOf(text))).val)

\* C29 witness: a text without trailing prose whose balanced prefix ends
\* inside a string and whose slice up to the last '}' was decoded.
C29_Witness ==
  /\ Done /\ wrap # "prose" /\ OnlyLastSliceDecodes(CleanOf(text))
  /\ BalancedEnd(CleanOf(text)) # 0
  /\ result.path = "lastBrace" /\ result.decodes = 3

\* The condition of the "else if (Array.isArray(data))" branch of
\* analyzeFridgeImage: data is not falsy, has no categories and is an array.
FallbackTaken(data) ==
  Truthy(data) /\ ~Truthy(Get(data, KCategories)) /\ IsArr(data)

Unparsable == parseModelJSON(respText).kind = "null"

\* C7: when the reply cannot be parsed, every call site returns its
\* "no data" result and raises nothing: an empty list, and null for
\* calculateWasteScore.
C7_EmptyIsNoData ==
  (cpc = "returned" /\ reqOutcome = "ok" /\ Unparsable)
    => /\ outcome.kind = "return"
       /\ outcome.val = IF site = "calculateWasteScore" THEN JNull ELSE EmptyList

\* C7 witness: analyzeFridgeImage has returned on a non-empty reply cut
\* off inside its object.
C7_Witness ==
  /\ cpc = "returned" /\ reqOutcome = "ok" /\ Unparsable
  /\ site = "analyzeFridgeImage" /\ HasChar(respText, "{")
  /\ outcome = Return(EmptyList)

\* C35: when the request is rejected, generateRecipes,
\* suggestSubstitutions and findGroceryStores return an empty list,
\* calculateWasteScore returns null, and analyzeFridgeImage and
\* generateSpeech raise the error to their caller.
C35_RejectedRequest ==
  (cpc = "returned" /\ reqOutcome = "reject")
    => outcome =
         CASE site \in {"generateRecipes", "suggestSubstitutions", "findGroceryStores"}
                -> Return(EmptyList)
           [] site = "calculateWasteScore" -> Return(JNull)
           [] site \in {"analyzeFridgeImage", SpeechSite} -> Throw

\* C35 witness: a rejected request of generateSpeech raised to the caller,
\* the reply that would have followed being valid audio.
C35_Witness ==
  /\ cpc = "returned" /\ reqOutcome = "reject" /\ site = SpeechSite
  /\ ~AtobThrows(respText) /\ respText # <<>>
  /\ outcome = Throw

(***************************************************************************)
(* Properties of the voice session.                                        *)
(***************************************************************************)
\* C8: once a connect() call has failed, nothing that call acquired is
\* still acquired.
C8_FailedConnectReleases ==
  \A f \in ConnIds : conn[f].pc = "rejected" => conn[f].made \cap Acquired = {}

\* C9: connect() never completes successfully for a session whose stream
\* open failed.
C9_StreamFailureFailsConnect ==
  \A f \in ConnIds : conn[f].pc = "resolved" => promise[f] # "rejected"

\* C10: on a session never connected, or connected once, every finished
\* disconnect() call ended without an error and left nothing acquired.
C10_DisconnectIdempotent ==
  \A d \in DiscIds :
    (disc[d].pc \in {"resolved", "rejected"} /\ disc[d].connects <= 1)
      => (disc[d].pc = "resolved" /\ disc[d].left = {})

Finished(d) == disc[d].pc \in {"resolved", "rejected"}

\* C11: every finished disconnect() call went through all of its release
\* steps and completed, whether or not one of them threw.
C11_StepsIsolated ==
  \A d \in DiscIds : Finished(d) => (disc[d].steps = AllSteps /\ disc[d].pc = "resolved")

\* C12: no disconnect() call ends by throwing, whatever the state of the
\* session, a failed stream open included.
C12_DisconnectNeverThrows == \A d \in DiscIds : disc[d].pc # "rejected"

\* C13: when disconnect() d was called while connect() f, the only
\* connect() call made, was in progress, then once both have finished (the
\* stream open f started is settled and no continuation is queued) nothing
\* f acquired is still acquired.
C13_MidConnectDisconnect ==
  \A d \in DiscIds : \A f \in disc[d].mid :
    (Finished(d) /\ conn[f].pc \in {"resolved", "rejected"}
       /\ promise[f] # "pending" /\ micro = <<>> /\ ConnectsCalled = 1)
      => conn[f].made \cap Acquired = {}

\* C14: once the transport has closed the stream of a session, the capture
\* track of that session is stopped, its two audio contexts are closed and
\* the active playback set is empty.
C14_TransportCloseTearsDown ==
  \A p \in ConnIds :
    promise[p] = "lost"
      => /\ trackState[p] # "live"
         /\ ctxState[InCtx(p)] # "running" /\ ctxState[OutCtx(p)] # "running"
         /\ sources = {}

\* C15: a step that delivers a transport error leaves the capture stream,
\* both audio contexts, the stream handle, the playback cursor and the
\* active playback set as they were, and opens no stream.
C15_TransportErrorFrame ==
  [][errorsSeen' # errorsSeen
       => UNCHANGED <<stream, inputAudioContext, outputAudioContext, sessionPromise,
                      nextStartTime, sources, promise, ctxState, trackState>>]_vars

\* C15 witness: an error was delivered while a buffer was in the active
\* set, and the session is still open, its capture track live and its
\* contexts running.
C15_Witness ==
  /\ errorsSeen > 0 /\ sessionPromise # 0 /\ promise[sessionPromise] = "open"
  /\ sources # {} /\ nextStartTime > 0
  /\ stream # 0 /\ trackState[stream] = "live"
  /\ ctxState[inputAudioContext] = "running" /\ ctxState[outputAudioContext] = "running"

\* C16: every transport error delivered was reported to the caller through
\* a callback.
C16_ErrorsReported ==
  errorsSeen = Cardinality({i \in 1..Len(callbacks) : callbacks[i].kind = "error"})

(***************************************************************************)
(* Properties of the capture path.                                         *)
(***************************************************************************)
\* C17: every transmitted frame was produced while its stream was open; a
\* frame produced before that is dropped, never transmitted later.
C17_SentWhileOpen ==
  \A i \in 1..Len(sent) : frames[sent[i][1]].at = "open"

C19_SentInCaptureOrder ==
  \A i, j \in 1..Len(sent) :
    i < j => /\ sent[i][1] # sent[j][1]
             /\ sent[i][2] = sent[j][2] => sent[i][1] < sent[j][1]

\* C19 witness: two frames transmitted on one stream, a frame captured
\* before the second of them having been dropped.
C19_Witness ==
  /\ Len(sent) >= 2 /\ sent[1][2] = sent[2][2]
  /\ \E k \in 1..Len(frames) :
       k < sent[2][1] /\ \A i \in 1..Len(sent) : sent[i][1] # k

(***************************************************************************)
(* Properties of the playback path.                                        *)
(***************************************************************************)
Scheduled(m) == m \in 1..Len(chunks) /\ chunks[m].pc = "scheduled"

\* C20: of two scheduled audio chunks, the one that arrived first starts no
\* later than the other, however the handlers interleave at the decode.
C20_PlaybackInArrivalOrder ==
  \A a, b \in 1..Len(chunks) :
    (a < b /\ Scheduled(a) /\ Scheduled(b)) => chunks[a].start <= chunks[b].start

\* C20 witness: a chunk that arrived while the chunk before it was still
\* suspended at its decode, both scheduled, the earlier one first.
C20_Witness ==
  \E a, b \in 1..Len(chunks) :
    /\ a < b /\ Scheduled(a) /\ Scheduled(b)
    /\ chunks[b].overlapped
    /\ chunks[a].start < chunks[b].start

(***************************************************************************)
(* Properties of the sample encoding.                                      *)
(***************************************************************************)
\* C30: the value stored for a sample s of [-1, 1] is a 16-bit signed
\* integer, equal to s * 32768 with the fraction dropped, and has the sign
\* of s.
C30_SampleEncoding ==
  blob.made =>
    /\ blob.int16 \in -FullScale..(FullScale - 1)
    /\ blob.int16 = Trunc(sample, HalfSteps)
    /\ sample > 0 => blob.int16 >= 0
    /\ sample < 0 => blob.int16 <= 0

(***************************************************************************)
(* Properties of playback scheduling.                                      *)
(***************************************************************************)
Duration(m) == chunks[m].msg.audio
EndOf(m) == chunks[m].start + Duration(m)

\* The start time of every scheduled buffer is the larger of the cursor and
\* the clock: no earlier than either when it arrived and when it was
\* started, equal to the cursor it was started at, and, when no other
\* handler was suspended at its arrival, equal to the cursor or the clock
\* read at its arrival.
StartIsMaxOfCursorAndClock ==
  \A m \in 1..Len(chunks) :
    Scheduled(m) =>
      /\ chunks[m].start >= chunks[m].cursorIn
      /\ chunks[m].start >= chunks[m].clockIn
      /\ chunks[m].start >= chunks[m].clockAt
      /\ chunks[m].start = chunks[m].cursorAt
      /\ ~chunks[m].overlapped => chunks[m].start \in {chunks[m].cursorIn, chunks[m].clockIn}

\* The play-out intervals of two scheduled buffers do not overlap.
IntervalsDisjoint ==
  \A a, b \in 1..Len(chunks) :
    (a # b /\ Scheduled(a) /\ Scheduled(b))
      => (EndOf(a) <= chunks[b].start \/ EndOf(b) <= chunks[a].start)

\* The step that starts a buffer leaves the cursor at the end of that buffer.
CursorAdvancesByDuration ==
  \A m \in 1..Len(chunks) :
    (chunks[m].pc = "decoding" /\ chunks'[m].pc = "scheduled")
      => (nextStartTime' = chunks'[m].start + chunks'[m].msg.audio
          /\ nextStartTime' = nextStartTime + chunks[m].msg.audio)

\* C21: every buffer is started at max(cursor, clock), the cursor then
\* advances by exactly its duration, and the intervals [start, start +
\* duration) of two buffers never overlap.
C21_ScheduledAtCursor ==
  /\ [](StartIsMaxOfCursorAndClock /\ IntervalsDisjoint)
  /\ [][CursorAdvancesByDuration]_vars

\* C21 witness: a buffer that arrived with the clock ahead of the cursor
\* and started at the clock, followed by a buffer that started at the end
\* of the first, ahead of the clock.
C21_Witness ==
  \E a, b \in 1..Len(chunks) :
    /\ a < b /\ Scheduled(a) /\ Scheduled(b)
    /\ chunks[a].clockIn > chunks[a].cursorIn
    /\ chunks[a].start = chunks[a].clockIn
    /\ chunks[b].start = EndOf(a)
    /\ chunks[b].start > chunks[b].clockAt

\* The total duration of the chunks that arrived before chunk m.
RECURSIVE DurationBefore(_)
DurationBefore(m) == IF m <= 1 THEN 0 ELSE DurationBefore(m - 1) + Duration(m - 1)

\* Chunk m arrived after the end of the chunk before it.
Late(m) == m > 1 /\ chunks[m].clockIn > EndOf(m - 1)

\* C22 as claimed: the first chunk starts when it arrives, and every chunk
\* starts at that time plus the durations of the chunks before it,
\* whatever the times of arrival.
C22_BackToBackAlways ==
  \A m \in 1..Len(chunks) :
    Scheduled(m) => chunks[m].start = chunks[1].clockIn + DurationBefore(m)

\* C22 amended: every chunk that arrives no later than the end of the chunk
\* before it starts at that end, so that chunks none of which is late start
\* at the first arrival plus the durations before them; a chunk that
\* arrives after the end of the chunk before it starts when it arrives.
C22_BackToBackUnlessLate ==
  \A m \in 1..Len(chunks) :
    Scheduled(m) =>
      /\ m = 1 => chunks[m].start = chunks[m].clockIn
      /\ (m > 1 /\ ~Late(m)) => chunks[m].start = EndOf(m - 1)
      /\ Late(m) => chunks[m].start = chunks[m].clockIn
      /\ (\A k \in 2..m : ~Late(k))
           => chunks[m].start = chunks[1].clockIn + DurationBefore(m)

\* C22 witness: three chunks arriving at three different times, the first
\* after time zero, none late, the third started at the first arrival plus
\* the two durations before it.
C22_Witness ==
  /\ Len(chunks) = 3 /\ \A m \in 1..3 : Scheduled(m)
  /\ 0 < chunks[1].clockIn
  /\ chunks[1].clockIn < chunks[2].clockIn
  /\ chunks[2].clockIn < chunks[3].clockIn
  /\ ~Late(2) /\ ~Late(3)
  /\ chunks[3].start = chunks[1].clockIn + Duration(1) + Duration(2)

(***************************************************************************)
(* Properties of the transcription callback.                               *)
(***************************************************************************)
Handled(m) == chunks[m].pc \in {"done", "scheduled", "failed"}
HasFragment(m) == chunks[m].msg.inText # "" \/ chunks[m].msg.outText # ""

\* C23: every handled message with a non-empty transcript fragment made
\* exactly one call to the caller's callback, and every other message none.
C23_OneCallPerTranscript ==
  /\ \A m \in 1..Len(chunks) :
       Handled(m) => chunks[m].calls = IF HasFragment(m) THEN 1 ELSE 0
  /\ (\A m \in 1..Len(chunks) : Handled(m))
       => Len(callbacks) = Cardinality({m \in 1..Len(chunks) : HasFragment(m)})

\* A step that handles a new message without audio.
HandlesNoAudio ==
  /\ Len(chunks') = Len(chunks) + 1
  /\ chunks'[Len(chunks')].msg.audio = NoAudio

\* C24: a message with neither audio nor transcript is handled without an
\* error and changes nothing (cursor, active set, callback calls, session);
\* a message with only a transcript leaves the cursor and the active set
\* unchanged and makes its one call.
C24_NoAudioNoEffect ==
  [][HandlesNoAudio =>
       LET msg == chunks'[Len(chunks')].msg
       IN /\ chunks'[Len(chunks')].pc = "done"
          /\ UNCHANGED <<nextStartTime, sources, unhandled, micro, clock, liveVars>>
          /\ (msg.inText = "" /\ msg.outText = "") => UNCHANGED callbacks
          /\ (msg.inText # "" \/ msg.outText # "") => Len(callbacks') = Len(callbacks) + 1]_vars

\* C24 witness: a message with neither audio nor transcript handled while a
\* buffer is in the active set and the cursor is at its end.
C24_Witness ==
  /\ Len(chunks) = 2 /\ Scheduled(1) /\ 1 \in sources
  /\ nextStartTime = EndOf(1) /\ nextStartTime > 0
  /\ chunks[2].msg = [audio |-> NoAudio, inText |-> "", outText |-> ""]
  /\ chunks[2].pc = "done" /\ callbacks = <<>>

(***************************************************************************)
(* Properties of the active playback set.                                  *)
(***************************************************************************)
\* C27 as claimed: the active set holds exactly the buffers that were
\* scheduled and whose 'ended' event has not fired.
C27_ActiveSetExact ==
  sources = {m \in 1..Len(chunks) : Scheduled(m) /\ ~chunks[m].ended}

\* C27 amended: the active set holds exactly the buffers that were
\* scheduled, whose 'ended' event has not fired and that disconnect() has
\* not stopped and cleared.
C27_ActiveSetUntilCleared ==
  sources = {m \in 1..Len(chunks) :
               Scheduled(m) /\ ~chunks[m].ended /\ ~chunks[m].stopped}

\* C27 witness: a buffer in the active set that has not ended, and a buffer
\* that played to its end and left the set.
C27_Witness ==
  \E a, b \in 1..Len(chunks) :
    /\ Scheduled(a) /\ ~chunks[a].ended /\ a \in sources
    /\ Scheduled(b) /\ chunks[b].ended /\ ~chunks[b].stopped /\ b \notin sources

(***************************************************************************)
(* Properties of the session as a whole.                                   *)
(***************************************************************************)
LiveTracks == {t \in ConnIds : trackState[t] = "live"}
RunningOutputs == {f \in ConnIds : ctxState[OutCtx(f)] = "running"}
OpenStreams == {p \in ConnIds : promise[p] \in {"pending", "open"}}

\* C25: in every state at most one capture stream is un-released, at most
\* one playback context is running and at most one network stream is
\* pending or open.
C25_AtMostOneOfEach ==
  /\ Cardinality(LiveTracks) <= 1
  /\ Cardinality(RunningOutputs) <= 1
  /\ Cardinality(OpenStreams) <= 1

\* The lifecycle states of the session, read off the client's fields and
\* the calls in progress.
Closing == \E d \in DiscIds : disc[d].pc = "await"
Connecting ==
  /\ ~Closing
  /\ \/ \E f \in ConnIds : conn[f].pc = "awaitMic"
     \/ sessionPromise # 0 /\ promise[sessionPromise] = "pending"
Open ==
  /\ ~Closing /\ ~Connecting
  /\ sessionPromise # 0 /\ promise[sessionPromise] = "open"
Idle == ~Closing /\ ~Connecting /\ sessionPromise = 0

\* C26: the lifecycle follows Idle -> Connecting -> Open -> Closing -> Idle;
\* in particular the transitions the claim names as unreachable are never
\* taken: no step takes an Open session to Connecting, and no step takes
\* an Idle session to Open.
C26_LifecycleOrder ==
  [][~(Open /\ Connecting') /\ ~(Idle /\ Open')]_vars

\* C28: once a disconnect() call has completed, and until connect() is
\* called again, the active set is empty and every buffer scheduled so far
\* has been stopped or has ended.
C28_EmptyAfterDisconnect ==
  \A d \in DiscIds :
    (disc[d].pc = "resolved" /\ disc[d].connects = ConnectsCalled)
      => /\ sources = {}
         /\ \A m \in 1..Len(chunks) :
              Scheduled(m) => (chunks[m].stopped \/ chunks[m].ended)

(***************************************************************************)
(* Properties of capture and teardown.                                     *)
(***************************************************************************)
\* The step that runs the then() continuation of a captured frame, which
\* calls sendRealtimeInput on the session of the frame's stream.
SendsFrame ==
  /\ micro # <<>> /\ IsTask(Head(micro), "send")
  /\ micro' = Tail(micro)

\* C32: no frame is handed to a stream for sending after close() has been
\* called on that stream.
C32_NoSendAfterClose ==
  [][SendsFrame => promise[frames[Head(micro)[2]].to] # "closed"]_vars

\* C33: the calls of the transcription callback are made in the order the
\* messages arrived: of two messages that both made a call, the earlier
\* message made the earlier call.
C33_TranscriptsInArrivalOrder ==
  \A a, b \in 1..Len(chunks) :
    (a < b /\ chunks[a].callPos > 0 /\ chunks[b].callPos > 0)
      => chunks[a].callPos < chunks[b].callPos

\* Chunk m is the first chunk handled on its stream.
FirstOfStream(m) == \A k \in 1..(m - 1) : chunks[k].from # chunks[m].from

\* The first session was connected fully, then disconnected, before the
\* second connect() was called.
Reconnected ==
  /\ disc[1].pc = "resolved" /\ disc[1].connects = 1 /\ disc[1].mid = {}
  /\ conn[2].pc = "resolved"

\* C34: after disconnect() and a new connect(), the first buffer of the new
\* session starts at the clock of the new playback context as it arrives.
C34_FreshCursorAfterReconnect ==
  \A m \in 1..Len(chunks) :
    (Reconnected /\ Scheduled(m) /\ chunks[m].from = 2 /\ FirstOfStream(m))
      => (chunks[m].ctx = OutCtx(2) /\ chunks[m].start = chunks[m].clockIn)

(***************************************************************************)
(* Properties of the Assistant.                                            *)
(***************************************************************************)
Holding == {c \in TapIds : clients[c].ctx \/ clients[c].track
                             \/ clients[c].net \in {"pending", "open"}}

\* The last tap turned live mode off and no tap has been made since.
TurnedOff ==
  /\ taps # <<>>
  /\ taps[Len(taps)].kind = "off" /\ taps[Len(taps)].pc = "done"
  /\ ~isLiveConnected

\* C36: at most one LiveClient holds acquired resources at a time, and
\* after a tap that turned live mode off no LiveClient holds a capture
\* stream or a pending or open network stream.
C36_OneClientAtATime ==
  /\ Cardinality(Holding) <= 1
  /\ TurnedOff => \A c \in TapIds : ~clients[c].track /\ clients[c].net \notin {"pending", "open"}

(***************************************************************************)
(* Properties of the shopping list.                                        *)
(***************************************************************************)
\* C37: the shopping list never holds the same item twice.
C37_NoDuplicateItems ==
  \A i, j \in 1..Len(shoppingList) : i # j => shoppingList[i] # shoppingList[j]

(***************************************************************************)
(* Properties of RecipeGenerator.fetchRecipes.                             *)
(***************************************************************************)
\* C38: a fetchRecipes call made with no ingredient issues no request; a
\* completed call that asked for more has put the returned recipes after
\* the recipes that were there, a completed normal call has put them in
\* place of the list, and either has left the flag it set at false, as has
\* a call whose request was rejected.
C38_FetchOutcome ==
  \A k \in 1..Len(fetches) :
    LET f == fetches[k] IN
      /\ f.empty => ~f.sent /\ ~f.done /\ ~f.threw
      /\ f.threw => f.flag = FALSE
      /\ f.done =>
           /\ f.more => f.after = f.before \o f.res
           /\ ~f.more => f.after = f.res
           /\ f.flag = FALSE

C38_Witness ==
  /\ \E k \in 1..Len(fetches) :
       /\ fetches[k].done /\ fetches[k].more
       /\ fetches[k].before # <<>> /\ fetches[k].res # <<>>
  /\ \E k \in 1..Len(fetches) :
       fetches[k].done /\ ~fetches[k].more /\ fetches[k].before # <<>>
  /\ \E k \in 1..Len(fetches) : fetches[k].empty

(***************************************************************************)
(* Properties of CookingMode.                                              *)
(***************************************************************************)
\* C39: the step shown is one of the steps of the recipe:
\* 0 <= currentStep <= steps - 1.
C39_StepWithinRecipe == 0 <= currentStep /\ currentStep <= steps - 1

=============================================================================
